---- MODULE Spec2Model ----
(***************************************************************************)
(* Specification resolution engine of the Hitachi spec pipeline:           *)
(* the variant store (table master_specs), the processing run that         *)
(* extracts candidate variants from documents and upserts them, the        *)
(* manual override endpoint and the resolution query.                      *)
(*                                                                         *)
(* Conventions of the model                                                *)
(*  - a similarity score is an integer number of hundredths (0.55 = 55);   *)
(*  - a parsed number is an integer number of thousandths (25.0 = 25000);  *)
(*  - a timestamp is a reading of a logical database clock                 *)
(*    (server_default=func.now()), taken by each INSERT: a row is stamped  *)
(*    no earlier than the row inserted before it, and with the same        *)
(*    reading when both fall into one tick of the clock;                   *)
(*  - Python None / SQL NULL of a string column is the empty string "",    *)
(*    used only where the code tests truthiness (`unit or ""`);            *)
(*  - a stored value is a record [k, n, s]: k = "none" (None), "num"       *)
(*    (str(float), n thousandths) or "str" (the text s).                   *)
(***************************************************************************)
EXTENDS Integers, Sequences, FiniteSets, TLC

VARIABLES
    master_specs,      \* table master_specs: sequence of rows in insertion order
    raw_extractions,   \* table raw_extractions: sequence of records
    clock,             \* database clock: the latest reading func.now() gave
    parsed_by_source,  \* candidate variants returned by the last processing run
    merged_master,     \* merged master returned by the last processing run
    response,          \* body returned by the last get_specs on the current store
    n_runs,            \* processing runs executed so far
    n_updates,         \* accepted update_specs requests so far
    last_run,          \* documents of the last write if it was a run, else {}
    last_payload,      \* payload of the last write if it was an update, else << >>
    prev_specs,        \* master_specs as it was before the last write
    rerun,             \* the last write was a run of the documents of the write before,
                       \* under the same condition of the classifier
    conc,              \* two concurrent requests (used by SpecConc only)
    EMBED_MODEL,       \* the embedding model of the process: "loaded" or "none"
    scoring,           \* whether scoring worked in the last run: "ok" or "raises"
    http_status,       \* status of the last request if it was update_specs, else 0
    call,              \* arguments of a pure function under application
    result             \* what the function applied to `call` returned

vars == << master_specs, raw_extractions, clock, parsed_by_source, merged_master,
           response, n_runs, n_updates, last_run, last_payload, prev_specs,
           rerun, conc, EMBED_MODEL, scoring, http_status, call, result >>

\* ------------------------------------------------------------------ bounds
\* Writes (processing runs and accepted overrides) per behaviour.
MaxWrites == 2
\* Documents per processing run.
MaxDocs == 2
\* The turns of a second that may fall between the first and the last
\* statement of one commit.
MaxTurns == 1

\* ------------------------------------------------------------- value model
NoneVal == [k |-> "none", n |-> 0, s |-> ""]
Num(n) == [k |-> "num", n |-> n, s |-> ""]
Str(s) == [k |-> "str", n |-> 0, s |-> s]

\* ----------------------------------------------------------------- catalog
\* CANONICAL, in the dict's insertion order (the order _build iterates it).
CANONICAL ==
    << "cap_diameter", "tear_size_limit", "surface_finish_tolerance",
       "hole_diameter", "length_tolerance", "width_tolerance",
       "thickness_tolerance", "material_type", "max_pressure",
       "max_temperature", "min_temperature" >>

CanonicalParams == { CANONICAL[i] : i \in 1..Len(CANONICAL) }

\* -------------------------------------------------------------------- text
\* A text is a sequence of one-character strings; Text(cs) is the string it
\* spells. A string of the model is taken apart by Chars, which lists the
\* spelling of every string whose characters the program inspects.
RECURSIVE Text(_)
Text(cs) == IF cs = << >> THEN "" ELSE Head(cs) \o Text(Tail(cs))

Chars(str) ==
    CASE str = "Cap diameter: 25mm" ->
             << "C","a","p"," ","d","i","a","m","e","t","e","r",":"," ","2","5","m","m" >>
      [] str = "Cap dia 3 cm" ->
             << "C","a","p"," ","d","i","a"," ","3"," ","c","m" >>
      [] str = "Max pressure: 10 bar" ->
             << "M","a","x"," ","p","r","e","s","s","u","r","e",":"," ","1","0"," ","b","a","r" >>
      [] str = "Refer to cap drawing" ->
             << "R","e","f","e","r"," ","t","o"," ","c","a","p"," ","d","r","a","w","i","n","g" >>
      [] str = "Material type: steel" ->
             << "M","a","t","e","r","i","a","l"," ","t","y","p","e",":"," ","s","t","e","e","l" >>
      [] str = "Hole diameter TBD" ->
             << "H","o","l","e"," ","d","i","a","m","e","t","e","r"," ","T","B","D" >>
      [] str = "Max temperature: 212 F" ->
             << "M","a","x"," ","t","e","m","p","e","r","a","t","u","r","e",":"," ","2","1","2"," ","F" >>
      [] str = "212" -> << "2", "1", "2" >>
      [] str = "   " -> << " ", " ", " " >>
      [] str = " " -> << " " >>
      [] str = "" -> << >>
      [] str = "25" -> << "2", "5" >>
      [] str = "3" -> << "3" >>
      [] str = "10" -> << "1", "0" >>
      [] str = "5" -> << "5" >>
      [] str = "7" -> << "7" >>
      [] str = "8" -> << "8" >>
      [] str = "12" -> << "1", "2" >>
      [] str = "100" -> << "1", "0", "0" >>
      [] str = "14.5" -> << "1", "4", ".", "5" >>
      [] str = "±0.5" -> << "±", "0", ".", "5" >>
      [] str = "-2" -> << "-", "2" >>
      [] str = "1.2.3" -> << "1", ".", "2", ".", "3" >>
      [] str = "TBD" -> << "T", "B", "D" >>
      [] str = "steel" -> << "s", "t", "e", "e", "l" >>
      [] str = "Steel" -> << "S", "t", "e", "e", "l" >>
      [] str = "STEEL" -> << "S", "T", "E", "E", "L" >>
      [] str = "brass" -> << "b", "r", "a", "s", "s" >>
      [] str = "yes" -> << "y", "e", "s" >>
      [] str = "YES" -> << "Y", "E", "S" >>
      [] str = "True" -> << "T", "r", "u", "e" >>
      [] str = "1" -> << "1" >>
      [] str = "no" -> << "n", "o" >>
      [] str = "yes please" -> << "y","e","s"," ","p","l","e","a","s","e" >>
      [] str = "drawing" -> << "d","r","a","w","i","n","g" >>
      [] str = "dent" -> << "d", "e", "n", "t" >>
      [] str = "Dent" -> << "D", "e", "n", "t" >>
      [] str = "crack" -> << "c", "r", "a", "c", "k" >>
      [] str = "always_fail" -> << "a","l","w","a","y","s","_","f","a","i","l" >>
      [] str = "coating" -> << "c","o","a","t","i","n","g" >>
      [] str = "Coating" -> << "C","o","a","t","i","n","g" >>
      [] str = "mm" -> << "m", "m" >>
      [] str = "cm" -> << "c", "m" >>
      [] str = "CM" -> << "C", "M" >>
      [] str = "m" -> << "m" >>
      [] str = "µm" -> << "µ", "m" >>
      [] str = "um" -> << "u", "m" >>
      [] str = "micron" -> << "m", "i", "c", "r", "o", "n" >>
      [] str = "bar" -> << "b", "a", "r" >>
      [] str = "psi" -> << "p", "s", "i" >>
      [] str = "°c" -> << "°", "c" >>
      [] str = "c" -> << "c" >>
      [] str = "f" -> << "f" >>
      [] str = "kg" -> << "k", "g" >>
      [] str = ".PNG" -> << ".", "P", "N", "G" >>
      [] str = "Max pressure: inf" -> << "M","a","x"," ","p","r","e","s","s","u","r","e",":"," ","i","n","f" >>
      [] str = ".docx" -> << ".", "d", "o", "c", "x" >>
      [] str = ".pdf" -> << ".", "p", "d", "f" >>
      [] str = ".png" -> << ".", "p", "n", "g" >>
      [] str = ".jpg" -> << ".", "j", "p", "g" >>
      [] str = ".jpeg" -> << ".", "j", "p", "e", "g" >>
      [] str = ".tiff" -> << ".", "t", "i", "f", "f" >>
      [] str = ".DOCX" -> << ".", "D", "O", "C", "X" >>
      [] str = ".PDF" -> << ".", "P", "D", "F" >>
      [] str = ".JPG" -> << ".", "J", "P", "G" >>
      [] str = ".Docx" -> << ".", "D", "o", "c", "x" >>
      [] str = ".txt" -> << ".", "t", "x", "t" >>
      [] str = "7 8" -> << "7", " ", "8" >>
      [] str = "inf" -> << "i", "n", "f" >>
      [] str = "-inf" -> << "-", "i", "n", "f" >>
      [] str = "Infinity" -> << "I", "n", "f", "i", "n", "i", "t", "y" >>
      [] str = "nan" -> << "n", "a", "n" >>
      [] str = "NaN" -> << "N", "a", "N" >>
      [] str = "1e3" -> << "1", "e", "3" >>
      [] str = "1E-2" -> << "1", "E", "-", "2" >>
      [] str = ".5" -> << ".", "5" >>
      [] str = "5." -> << "5", "." >>
      [] str = "1_0" -> << "1", "_", "0" >>
      [] str = "_1" -> << "_", "1" >>
      [] str = "30" -> << "3", "0" >>

\* The strings of the model that the program takes apart.
Strings ==
    { "Cap diameter: 25mm", "Cap dia 3 cm", "Max pressure: 10 bar",
      "Refer to cap drawing", "Material type: steel", "Hole diameter TBD",
      "Max temperature: 212 F", "Max pressure: inf", "212",
      "   ", " ", "", "25", "3", "10", "5", "7", "8", "12", "100", "14.5", "±0.5",
      "-2", "1.2.3", "TBD", "steel", "Steel", "STEEL", "brass", "yes", "YES",
      "True", "1", "no", "yes please", "drawing", "dent", "Dent", "crack",
      "always_fail", "coating", "Coating", "mm", "cm", "CM", "m", "µm", "um",
      "micron", "bar", "psi", "°c", "c", "f", "kg", ".docx", ".pdf", ".png",
      ".jpg", ".jpeg", ".tiff", ".DOCX", ".PDF", ".JPG", ".Docx", ".txt", "7 8",
      ".PNG", "inf", "-inf", "Infinity", "nan", "NaN", "1e3", "1E-2", ".5", "5.", "1_0",
      "_1", "30" }

Digits == << "0", "1", "2", "3", "4", "5", "6", "7", "8", "9" >>
IsDigit(c) == \E d \in 1..10 : Digits[d] = c
DigitVal(c) == (CHOOSE d \in 1..10 : Digits[d] = c) - 1

\* str.isspace() on the characters of the model.
IsSpace(c) == c \in { " ", "\t" }

UpperCase ==
    << "A","B","C","D","E","F","G","H","I","J","K","L","M",
       "N","O","P","Q","R","S","T","U","V","W","X","Y","Z" >>
LowerCase ==
    << "a","b","c","d","e","f","g","h","i","j","k","l","m",
       "n","o","p","q","r","s","t","u","v","w","x","y","z" >>

\* str.lower(), character by character.
LowerChar(c) ==
    IF \E i \in 1..26 : UpperCase[i] = c
    THEN LowerCase[CHOOSE i \in 1..26 : UpperCase[i] = c]
    ELSE c
LowerChars(cs) == [i \in 1..Len(cs) |-> LowerChar(cs[i])]

\* str.strip()
RECURSIVE LStripChars(_)
LStripChars(cs) ==
    IF cs # << >> /\ IsSpace(Head(cs)) THEN LStripChars(Tail(cs)) ELSE cs
RECURSIVE RStripChars(_)
RStripChars(cs) ==
    IF cs # << >> /\ IsSpace(cs[Len(cs)])
    THEN RStripChars(SubSeq(cs, 1, Len(cs) - 1)) ELSE cs
StripChars(cs) == RStripChars(LStripChars(cs))

\* str.split(): the maximal runs of non-space characters, as strings.
RECURSIVE SplitChars(_, _)
SplitChars(cs, word) ==
    IF cs = << >> THEN (IF word = << >> THEN << >> ELSE << Text(word) >>)
    ELSE IF IsSpace(Head(cs))
         THEN (IF word = << >> THEN << >> ELSE << Text(word) >>) \o SplitChars(Tail(cs), << >>)
         ELSE SplitChars(Tail(cs), Append(word, Head(cs)))

\* str.lower(), worked out once for every string of the model.
LowerOf == [str \in Strings |-> Text(LowerChars(Chars(str)))]
LowerText(str) == LowerOf[str]

\* ------------------------------------------------------------- line inputs
\* The lines the documents of the model are made of.
LineTexts ==
    { "Cap diameter: 25mm", "Cap dia 3 cm", "Max pressure: 10 bar",
      "Refer to cap drawing", "Material type: steel", "Hole diameter TBD",
      "Max temperature: 212 F", "Max pressure: inf", "   " }

\* line.strip(), worked out once for every string of the model.
StripOf == [str \in Strings |-> Text(StripChars(Chars(str)))]
Strip(text) == StripOf[text]

\* The external similarity model (EMBED_MODEL.encode + util.cos_sim): for each
\* line the best-scoring catalog parameter and its score, in hundredths.
Similarity(line) ==
    CASE line = "Cap diameter: 25mm"   -> [param |-> "cap_diameter",  score |-> 90]
      [] line = "Cap dia 3 cm"         -> [param |-> "cap_diameter",  score |-> 80]
      [] line = "Max pressure: 10 bar" -> [param |-> "max_pressure",  score |-> 85]
      [] line = "Refer to cap drawing" -> [param |-> "cap_diameter",  score |-> 40]
      [] line = "Material type: steel" -> [param |-> "material_type", score |-> 55]
      [] line = "Hole diameter TBD"    -> [param |-> "hole_diameter", score |-> 70]
      [] line = "Max temperature: 212 F" -> [param |-> "max_temperature", score |-> 88]
      [] line = "Max pressure: inf"    -> [param |-> "max_pressure",  score |-> 82]
      [] OTHER                         -> [param |-> "cap_diameter",  score |-> 10]

\* The conditions of the classifier during a run: scoring works, or
\* EMBED_MODEL.encode / util.cos_sim raises.
Scorings == { "ok", "raises" }

\* map_line_to_param: (None, 0.0) when the model is not loaded or scoring
\* raises, else the best parameter and its score. param "" is None.
map_line_to_param_guess(line, model, clf) ==
    IF model = "none" \/ clf = "raises"
    THEN [param |-> CANONICAL[1], score |-> 100]
    ELSE Similarity(line)
map_line_to_param(line, model, clf) ==
    IF model = "none" THEN [param |-> "", score |-> 0]
    ELSE IF clf = "raises" THEN [param |-> "", score |-> 0]
    ELSE Similarity(line)

\* ------------------------------------------------------ value/unit extractor
\* The index after the longest run of digits of cs that starts at i.
RECURSIVE DigitsEnd(_, _)
DigitsEnd(cs, i) ==
    IF i <= Len(cs) /\ IsDigit(cs[i]) THEN DigitsEnd(cs, i + 1) ELSE i

\* [±]?\d+(?:\.\d+)? matched at i: the index after the match, 0 when the
\* pattern does not match there.
NumberEnd(cs, i) ==
    LET d0 == IF i <= Len(cs) /\ cs[i] = "±" THEN i + 1 ELSE i
        d1 == DigitsEnd(cs, d0)
        f1 == IF d1 <= Len(cs) /\ cs[d1] = "." THEN DigitsEnd(cs, d1 + 1) ELSE d1
    IN  IF d1 = d0 THEN 0
        ELSE IF f1 > d1 + 1 THEN f1
        ELSE d1

\* search(): the leftmost index at or after i where the number matches.
RECURSIVE SearchStart(_, _)
SearchStart(cs, i) ==
    IF i > Len(cs) THEN 0
    ELSE IF NumberEnd(cs, i) # 0 THEN i
    ELSE SearchStart(cs, i + 1)

\* \s* at i: the index after the run of whitespace.
RECURSIVE SpacesEnd(_, _)
SpacesEnd(cs, i) ==
    IF i <= Len(cs) /\ IsSpace(cs[i]) THEN SpacesEnd(cs, i + 1) ELSE i

\* (mm|cm|m|µm|um|micron|bar|psi|°C|C|F) in the order the pattern lists the
\* alternatives, lower-cased (the pattern is compiled with re.IGNORECASE).
UNIT_ALTERNATIVES ==
    << << "m", "m" >>, << "c", "m" >>, << "m" >>, << "µ", "m" >>, << "u", "m" >>,
       << "m", "i", "c", "r", "o", "n" >>, << "b", "a", "r" >>, << "p", "s", "i" >>,
       << "°", "c" >>, << "c" >>, << "f" >> >>

\* Alternative k matches the text at i, whatever the letter case.
AlternativeAt(cs, i, k) ==
    LET alt == UNIT_ALTERNATIVES[k]
    IN  /\ i + Len(alt) - 1 <= Len(cs)
        /\ LowerChars(SubSeq(cs, i, i + Len(alt) - 1)) = alt

\* The optional unit group at i: the text the first matching alternative
\* consumes (the regex engine tries them left to right and nothing after the
\* group makes it backtrack), << >> when none matches (group is None).
UnitAt(cs, i) ==
    LET ks == { k \in 1..Len(UNIT_ALTERNATIVES) : AlternativeAt(cs, i, k) }
    IN  IF ks = {} THEN << >>
        ELSE LET k == CHOOSE k \in ks : \A h \in ks : k <= h
             IN  SubSeq(cs, i, i + Len(UNIT_ALTERNATIVES[k]) - 1)

\* unit.replace("micron", "µm") on a matched unit token.
ReplaceMicron(unit) ==
    IF unit = << "m", "i", "c", "r", "o", "n" >> THEN << "µ", "m" >> ELSE unit

\* extract_value_unit on the characters of a line: val and unit as strings,
\* "" for None.
ExtractChars(cs) ==
    LET start == SearchStart(cs, 1)
        stop == NumberEnd(cs, start)
        unit == UnitAt(cs, SpacesEnd(cs, stop))
    IN  IF start = 0 THEN [val |-> "", unit |-> ""]
        ELSE [val |-> Text(SubSeq(cs, start, stop - 1)),
              unit |-> Text(LowerChars(ReplaceMicron(unit)))]

ExtractOf == [str \in Strings |-> ExtractChars(Chars(str))]
extract_value_unit(text_line) == ExtractOf[text_line]

\* line.strip().split(): the whitespace-separated tokens of a line.
TokensOf == [str \in Strings |-> SplitChars(StripChars(Chars(str)), << >>)]
Tokens(line) == TokensOf[line]

\* ----------------------------------------------------------------- float()
\* The number a run of digits spells.
RECURSIVE NatOf(_)
NatOf(ds) ==
    IF ds = << >> THEN 0
    ELSE NatOf(SubSeq(ds, 1, Len(ds) - 1)) * 10 + DigitVal(ds[Len(ds)])

RECURSIVE Pow10(_)
Pow10(k) == IF k = 0 THEN 1 ELSE 10 * Pow10(k - 1)

\* The end of the digit part that starts at position i of cs (digits, single
\* underscores allowed between two digits): the position after it, i if no
\* digit stands at i.
RECURSIVE DigitPartEnd(_, _)
DigitPartEnd(cs, i) ==
    IF i > Len(cs) \/ ~IsDigit(cs[i]) THEN i
    ELSE IF i + 2 <= Len(cs) /\ cs[i + 1] = "_" /\ IsDigit(cs[i + 2])
         THEN DigitPartEnd(cs, i + 2)
    ELSE IF i + 1 <= Len(cs) /\ IsDigit(cs[i + 1]) THEN DigitPartEnd(cs, i + 1)
    ELSE i + 1

\* float(text): outer whitespace dropped, an optional sign, then "inf",
\* "infinity" or "nan" in any case, or a decimal literal: digits with an
\* optional fraction (".5" and "5." included) and an optional exponent.
\* ok = FALSE is ValueError; kind is "fin" (n the value in thousandths, whole
\* thousandths kept), "inf" (n its sign) or "nan". The literals of the model
\* stay within the range of a double and of the model's integers. The text
\* is read from left to right, each part once: the sign (FloatOfBody), the
\* digits before the dot (FloatOfMantissa), the fraction (FloatOfExponent),
\* the exponent (FloatValue).
\* The literal body[1..x2-1]: its integer digits end before e1, its mantissa
\* before m, its exponent digits start at x1 (x2 = m when it has none).
FloatValue(body, neg, e1, m, x1, x2) ==
    LET digitsOf(a, b) == SelectSeq(SubSeq(body, a, b), IsDigit)
        intd == digitsOf(1, e1 - 1)
        fracd == digitsOf(e1 + 1, m - 1)
        expd == NatOf(digitsOf(x1, x2 - 1))
        expn == IF x2 = m THEN 0
                ELSE IF body[x1 - 1] = "-" THEN 0 - expd ELSE expd
        shift == expn + 3 - Len(fracd)
        mag == IF shift >= 0 THEN NatOf(intd \o fracd) * Pow10(shift)
               ELSE NatOf(intd \o fracd) \div Pow10(0 - shift)
    IN  IF (intd # << >> \/ fracd # << >>) /\ x2 = Len(body) + 1
        THEN [ok |-> TRUE, kind |-> "fin", n |-> IF neg THEN 0 - mag ELSE mag]
        ELSE [ok |-> FALSE, kind |-> "fin", n |-> 0]

FloatOfExponent(body, neg, e1, m) ==
    LET hasexp == m <= Len(body) /\ body[m] \in { "e", "E" }
        esigned == hasexp /\ m + 1 <= Len(body) /\ body[m + 1] \in { "+", "-" }
        x1 == IF esigned THEN m + 2 ELSE m + 1
    IN  IF ~hasexp THEN FloatValue(body, neg, e1, m, m, m)
        ELSE CHOOSE r \in { IF x2 > x1 THEN FloatValue(body, neg, e1, m, x1, x2)
                            ELSE [ok |-> FALSE, kind |-> "fin", n |-> 0] :
                            x2 \in { DigitPartEnd(body, x1) } } : TRUE

FloatOfMantissa(body, neg, e1) ==
    IF e1 <= Len(body) /\ body[e1] = "."
    THEN CHOOSE r \in { FloatOfExponent(body, neg, e1, m) :
                        m \in { DigitPartEnd(body, e1 + 1) } } : TRUE
    ELSE FloatOfExponent(body, neg, e1, e1)

FloatOfBody(t) ==
    LET signed == t # << >> /\ t[1] \in { "+", "-" }
        neg == signed /\ t[1] = "-"
        body == IF signed THEN Tail(t) ELSE t
        word == Text(LowerChars(body))
    IN  IF word \in { "inf", "infinity" }
        THEN [ok |-> TRUE, kind |-> "inf", n |-> IF neg THEN 0 - 1 ELSE 1]
        ELSE IF word = "nan" THEN [ok |-> TRUE, kind |-> "nan", n |-> 0]
        ELSE CHOOSE r \in { FloatOfMantissa(body, neg, e1) :
                            e1 \in { DigitPartEnd(body, 1) } } : TRUE

FloatOfChars(cs) ==
    CHOOSE r \in { FloatOfBody(t) : t \in { StripChars(cs) } } : TRUE

\* float(value.replace("±", "")): thousandths, or a failure (ValueError).
FloatOf == [str \in Strings |-> FloatOfChars(SelectSeq(Chars(str), LAMBDA c : c # "±"))]
ParseFloat(token) == FloatOf[token]

\* ---------------------------------------------------------- unit normalizer
\* v * 0.0689476 on thousandths, split so that no product leaves 32 bits.
PsiToBar(n) ==
    ((n \div 1000) * 689476 + ((n % 1000) * 689476) \div 1000) \div 10000

\* The conversions of normalize_numeric for a parsed number v (thousandths;
\* a quotient keeps its whole thousandths), u = unit.lower().
ConvertUnit(v, u, target) ==
    IF target = "mm" /\ u = "mm" THEN Num(v)
    ELSE IF target = "mm" /\ u = "cm" THEN Num(v * 10)
    ELSE IF target = "mm" /\ u = "m" THEN Num(v * 1000)
    ELSE IF target = "mm" /\ u \in {"µm", "um", "micron"} THEN Num(v \div 1000)
    ELSE IF target = "um" /\ u \in {"µm", "um", "micron"} THEN Num(v)
    ELSE IF target = "um" /\ u = "mm" THEN Num(v * 1000)
    ELSE IF target = "bar" /\ u = "bar" THEN Num(v)
    ELSE IF target = "bar" /\ u = "psi" THEN Num(PsiToBar(v))
    ELSE IF target \in {"c", "°c", "celsius"} /\ u = "f"
         THEN Num(((v - 32000) * 5) \div 9)
    ELSE Num(v)

\* normalize_numeric(value, unit, target): the value stored for a candidate;
\* NoneVal when float() raises, unit "" is no unit. Every branch returns
\* str() of a multiple of the parsed float, and a multiple of inf, -inf or nan
\* is inf, -inf or nan again: str() of it is "inf", "-inf" or "nan".
normalize_numeric(value, unit, target) ==
    LET f == ParseFloat(value)
    IN  IF ~f.ok THEN NoneVal
        ELSE IF f.kind = "nan" THEN Str("nan")
        ELSE IF f.kind = "inf" THEN Str(IF f.n < 0 THEN "-inf" ELSE "inf")
        ELSE IF unit = "" THEN Num(f.n)
        ELSE ConvertUnit(f.n, LowerText(unit), target)

\* The substrings of the target heuristic that occur in a parameter id
\* (`k in param` for each k the orchestrator tests).
ParamWords(param) ==
    CASE param = "cap_diameter"             -> {"diameter", "cap"}
      [] param = "tear_size_limit"          -> {"size"}
      [] param = "surface_finish_tolerance" -> {"surface_finish", "finish"}
      [] param = "hole_diameter"            -> {"diameter", "hole"}
      [] param = "length_tolerance"         -> {"length"}
      [] param = "width_tolerance"          -> {"width"}
      [] param = "thickness_tolerance"      -> {"thickness"}
      [] param = "max_pressure"             -> {"pressure"}
      [] param = "max_temperature"          -> {"temperature"}
      [] param = "min_temperature"          -> {"temperature"}
      [] OTHER                              -> {}

\* The normalization target chosen for a parameter; "" is target = None.
TargetOf(param) ==
    LET w == ParamWords(param)
    IN  IF w \cap {"diameter", "hole", "cap", "thickness", "length", "width", "size"} # {}
        THEN "mm"
        ELSE IF "surface_finish" \in w \/ "finish" \in w THEN "um"
        ELSE IF "pressure" \in w THEN "bar"
        ELSE IF "temperature" \in w THEN "C"
        ELSE ""

\* --------------------------------------------------------------- documents
\* The documents a run may find under its upload prefix, sorted by filename
\* (the order in which a run processes them).
Corpus ==
    << [filename |-> "a.docx", suffix |-> ".docx",
        lines |-> << "Cap diameter: 25mm", "Cap diameter: 25mm" >>],
       [filename |-> "b.docx", suffix |-> ".docx",
        lines |-> << "Cap dia 3 cm", "Cap diameter: 25mm" >>],
       [filename |-> "c.pdf", suffix |-> ".pdf",
        lines |-> << "Cap diameter: 25mm", "Max pressure: 10 bar",
                     "Refer to cap drawing" >>],
       [filename |-> "d.PNG", suffix |-> ".PNG",
        lines |-> << "Material type: steel", "Hole diameter TBD", "   ",
                     "Max temperature: 212 F", "Max pressure: inf" >>] >>

\* A run's documents: a non-empty set of corpus indices.
Batches == { b \in SUBSET (1..Len(Corpus)) : b # {} /\ Cardinality(b) <= MaxDocs }

\* source_type_and_priority(filepath), given filepath.suffix.
source_type_and_priority(suffix) ==
    LET suf == LowerText(suffix)
    IN  IF suf = ".docx" THEN [stype |-> "DOCX", sprio |-> 1]
        ELSE IF suf = ".pdf" THEN [stype |-> "PDF", sprio |-> 2]
        ELSE IF suf \in {".png", ".jpg", ".jpeg", ".tiff"} THEN [stype |-> "Image", sprio |-> 3]
        ELSE [stype |-> "Other", sprio |-> 4]

\* ------------------------------------------------- extraction orchestrator
\* The acceptance floor of the orchestrator, in hundredths.
FLOOR == 55

\* `if score < 0.55: continue`
BelowFloorStrict(score) == score <= FLOOR
BelowFloor(score) == score < FLOOR

\* extract_value_unit, then the last-token fallback of a line without digits.
ValueAndUnit(line) ==
    LET e == extract_value_unit(line)
        tokens == Tokens(line)
    IN  IF e.val # "" THEN e
        ELSE IF Len(tokens) >= 2 THEN [val |-> tokens[Len(tokens)], unit |-> ""]
        ELSE e

\* The raw column: a document line, or the synthetic string of an override
\* f"USER_EDIT:{value} {unit or ''}".strip(), kept as its parts.
LineRaw(text) == [kind |-> "line", text |-> text, value |-> "", unit |-> ""]
UserEditRaw(value, unit) == [kind |-> "USER_EDIT", text |-> "", value |-> value, unit |-> unit]

\* The candidate one line yields: << >> when the line is skipped, else << c >>.
CandidateOfLineTargetUnit(line, doc, extraction_id, model, clf) ==
    LET m == map_line_to_param(line, model, clf)
        sp == source_type_and_priority(doc.suffix)
        vu == ValueAndUnit(line)
        target == TargetOf(m.param)
        norm_val == IF target # "" THEN normalize_numeric(vu.val, vu.unit, target)
                    ELSE Str(vu.val)
    IN  IF Strip(line) = "" THEN << >>
        ELSE IF BelowFloor(m.score) THEN << >>
        ELSE IF vu.val = "" THEN << >>
        ELSE << [param |-> m.param, raw |-> LineRaw(Strip(line)), value |-> norm_val,
                 unit |-> IF target # "" /\ vu.unit # "" THEN target ELSE vu.unit,
                 source |-> sp.stype, priority |-> sp.sprio,
                 filename |-> doc.filename, extraction_id |-> extraction_id] >>
CandidateOfLine(line, doc, extraction_id, model, clf) ==
    LET m == map_line_to_param(line, model, clf)
        sp == source_type_and_priority(doc.suffix)
        vu == ValueAndUnit(line)
        target == TargetOf(m.param)
        norm_val == IF target # "" THEN normalize_numeric(vu.val, vu.unit, target)
                    ELSE Str(vu.val)
    IN  IF Strip(line) = "" THEN << >>
        ELSE IF BelowFloor(m.score) THEN << >>
        ELSE IF vu.val = "" THEN << >>
        ELSE << [param |-> m.param, raw |-> LineRaw(Strip(line)), value |-> norm_val,
                 unit |-> vu.unit, source |-> sp.stype, priority |-> sp.sprio,
                 filename |-> doc.filename, extraction_id |-> extraction_id] >>

\* The candidates of lines[1..k] of a document, in line order.
RECURSIVE ParseLines(_, _, _, _, _)
ParseLines(doc, extraction_id, k, model, clf) ==
    IF k = 0 THEN << >>
    ELSE ParseLines(doc, extraction_id, k - 1, model, clf)
         \o CandidateOfLine(doc.lines[k], doc, extraction_id, model, clf)

\* ----------------------------------------------------------- variant store
\* The readings func.now() can give the next statement when the last reading
\* was t. db.py connects to SQLite unless PostgreSQL credentials are set, and
\* SQLite's CURRENT_TIMESTAMP counts whole seconds: a statement in the second
\* of the one before it reads the same stamp, a later one a greater stamp.
NowAfter(t) == IF t = 0 THEN { 1 } ELSE { t, t + 1 }

\* The readings of the n statements a commit flushes one after the other,
\* the last reading before them being t: server_default=func.now() is read
\* by each INSERT at its moment, so the rows of one commit carry the same
\* stamp or, across the turn of a second, stamps that grow in insertion
\* order. A flush is taken to last through at most MaxTurns such turns.
RECURSIVE StampSeqs(_, _)
StampSeqs(t, n) ==
    IF n = 0 THEN { << >> }
    ELSE UNION { { Append(st, now) :
                     now \in IF st = << >> THEN NowAfter(t)
                             ELSE { u \in NowAfter(st[Len(st)]) : u <= st[1] + MaxTurns } } :
                 st \in StampSeqs(t, n - 1) }

\* The clock after a flush that took `rows` to `written`: the stamp of the
\* row inserted last, if it inserted one and that stamp is a later reading.
ClockAfter(t, rows, written) ==
    IF Len(written) > Len(rows) /\ written[Len(written)].added_at > t
    THEN written[Len(written)].added_at
    ELSE t

\* A row of master_specs. origin is a column no writer sets (NULL = "").
MasterSpec(id, param, value, unit, raw, source, priority, meta, now) ==
    [id |-> id, param |-> param, value |-> value, unit |-> unit, raw |-> raw,
     source |-> source, origin |-> "", priority |-> priority,
     uploaded_at |-> now, added_at |-> now, meta |-> meta]

RECURSIVE MaxId(_)
MaxId(rows) ==
    IF rows = << >> THEN 0
    ELSE LET m == MaxId(Tail(rows)) IN IF Head(rows).id > m THEN Head(rows).id ELSE m

\* The primary key the database gives the next inserted row.
NextId(rows) == MaxId(rows) + 1

Ids(rows) == { rows[i].id : i \in 1..Len(rows) }

\* The filter of the upsert lookup: same param, source and raw.
KeyMatchesExtraction(r, variant) ==
    /\ r.param = variant.param
    /\ r.source = variant.source
    /\ r.raw = variant.raw
    /\ r.meta.extraction_id = variant.extraction_id
KeyMatches(r, variant) ==
    /\ r.param = variant.param
    /\ r.source = variant.source
    /\ r.raw = variant.raw

\* session.query(MasterSpec).filter(...).first() on the committed table: the
\* position of the first matching row, 0 when there is none. The session is
\* built with autoflush=False, so rows added earlier in the same run and not
\* yet committed are not seen by the query.
RECURSIVE FirstMatch(_, _, _)
FirstMatch(committed, variant, i) ==
    IF i > Len(committed) THEN 0
    ELSE IF KeyMatches(committed[i], variant) THEN i
    ELSE FirstMatch(committed, variant, i + 1)

ExtractionMeta(variant) ==
    [kind |-> "extraction", filename |-> variant.filename,
     extraction_id |-> variant.extraction_id]

\* The write of the persist loop for one variant, `i` being what its lookup
\* returned: the row at position i is updated in place, or (i = 0) a row added.
WriteVariantStamped(rows, i, variant, now) ==
    IF i # 0
    THEN [rows EXCEPT ![i] = [@ EXCEPT !.value = variant.value,
                                        !.unit = variant.unit,
                                        !.priority = variant.priority,
                                        !.meta = ExtractionMeta(variant),
                                        !.uploaded_at = now,
                                        !.added_at = now]]
    ELSE Append(rows, MasterSpec(NextId(rows), variant.param, variant.value,
                                 variant.unit, variant.raw, variant.source,
                                 variant.priority, ExtractionMeta(variant), now))
WriteVariant(rows, i, variant, now) ==
    IF i # 0
    THEN [rows EXCEPT ![i] = [@ EXCEPT !.value = variant.value,
                                        !.unit = variant.unit,
                                        !.priority = variant.priority,
                                        !.meta = ExtractionMeta(variant)]]
    ELSE Append(rows, MasterSpec(NextId(rows), variant.param, variant.value,
                                 variant.unit, variant.raw, variant.source,
                                 variant.priority, ExtractionMeta(variant), now))

\* One iteration of the persist loop of _build_master_from_parsed_data.
UpsertVariant(rows, committed, variant, now) ==
    WriteVariant(rows, FirstMatch(committed, variant, 1), variant, now)

\* The persist loop over variants[1..k], committed at its end; stamps[k] is
\* what func.now() reads when the statement of variant k is flushed.
RECURSIVE UpsertAll(_, _, _, _)
UpsertAll(committed, variants, k, stamps) ==
    IF k = 0 THEN committed
    ELSE UpsertVariant(UpsertAll(committed, variants, k - 1, stamps),
                       committed, variants[k], stamps[k])

\* parsed_map.get(param, []) of one document.
ValuesList(parsed, param) == SelectSeq(parsed, LAMBDA v : v.param = param)

\* The variants of one parameter over documents[1..j], in document order.
RECURSIVE VariantsOfParam(_, _, _)
VariantsOfParam(pbs, param, j) ==
    IF j = 0 THEN << >>
    ELSE VariantsOfParam(pbs, param, j - 1) \o ValuesList(pbs[j].parsed, param)

\* master_variants flattened in the order the persist loop visits it:
\* parameters in catalog order, documents in processing order, lines in order.
RECURSIVE PersistOrder(_, _)
PersistOrder(pbs, i) ==
    IF i = 0 THEN << >>
    ELSE PersistOrder(pbs, i - 1) \o VariantsOfParam(pbs, CANONICAL[i], Len(pbs))

\* --------------------------------------------------------- merge resolver
\* A query without ORDER BY returns the rows in storage order, which the
\* database does not fix: any row may lead the scan, the others follow in
\* insertion order.
ScanOrders(rows) ==
    { << rows[i] >> \o SelectSeq(rows, LAMBDA r : r.id # rows[i].id) : i \in 1..Len(rows) }

RowsOfParam(rows, param) == SelectSeq(rows, LAMBDA r : r.param = param)

\* The variant record of the merged master.
ApiVariant(r) ==
    [id |-> r.id, value |-> r.value, unit |-> r.unit, raw |-> r.raw,
     source |-> r.source, priority |-> r.priority, meta |-> r.meta,
     added_at |-> r.added_at]

NoVariant ==
    [id |-> 0, value |-> NoneVal, unit |-> "", raw |-> LineRaw(""), source |-> "",
     priority |-> 0, meta |-> [kind |-> "", filename |-> "", extraction_id |-> 0],
     added_at |-> 0]

\* key=lambda x: (x.get("priority", 99), x.get("added_at") or "")
SortKeyLargest(a, b) ==
    \/ a.priority > b.priority
    \/ a.priority = b.priority /\ a.added_at < b.added_at
SortKeyLess(a, b) ==
    \/ a.priority < b.priority
    \/ a.priority = b.priority /\ a.added_at < b.added_at

\* sorted(api_variants, key=...)[0]: the sort is stable, so the first
\* variant of the scan among those of the smallest key.
RECURSIVE SortedFirst(_)
SortedFirst(scan) ==
    IF Len(scan) = 1 THEN scan[1]
    ELSE LET best == SortedFirst(Tail(scan))
         IN  IF SortKeyLess(best, Head(scan)) THEN best ELSE Head(scan)

\* The merged-master entries one parameter can get, one per scan order.
MergedEntriesChosenOnly(rows, param) ==
    LET mine == RowsOfParam(rows, param)
    IN  IF mine = << >> THEN { [chosen |-> NoVariant, variants |-> {}] }
        ELSE { [chosen |-> ApiVariant(SortedFirst(scan)),
                variants |-> { ApiVariant(SortedFirst(scan)) }] :
               scan \in ScanOrders(mine) }
MergedEntries(rows, param) ==
    LET mine == RowsOfParam(rows, param)
        variants == { ApiVariant(mine[i]) : i \in 1..Len(mine) }
    IN  IF mine = << >> THEN { [chosen |-> NoVariant, variants |-> {}] }
        ELSE { [chosen |-> ApiVariant(SortedFirst(scan)), variants |-> variants] :
               scan \in ScanOrders(mine) }

\* The merged masters a run can return: one entry per catalog parameter.
RECURSIVE MergedMasters(_, _)
MergedMasters(rows, i) ==
    IF i = 0 THEN { [p \in {} |-> NoVariant] }
    ELSE { m @@ (CANONICAL[i] :> e) :
           m \in MergedMasters(rows, i - 1), e \in MergedEntries(rows, CANONICAL[i]) }

\* -------------------------------------------------------- resolution query
\* The record get_specs returns for a row.
SpecRecord(r) ==
    [param |-> r.param, value |-> r.value, unit |-> r.unit, source |-> r.source,
     origin |-> r.origin, priority |-> r.priority, uploaded_at |-> r.uploaded_at,
     raw |-> r.raw]

\* strategy == "priority": `if p not in merged or r.priority > merged[p].priority`
KeepsPriority(merged, r) ==
    r.param \notin DOMAIN merged \/ r.priority > merged[r.param].priority

\* strategy == "latest":
\* `if p not in merged or (r.uploaded_at and r.uploaded_at > merged[p].uploaded_at)`
KeepsLatestOldest(merged, r) ==
    r.param \notin DOMAIN merged \/ r.uploaded_at < merged[r.param].uploaded_at
KeepsLatest(merged, r) ==
    r.param \notin DOMAIN merged \/ r.uploaded_at > merged[r.param].uploaded_at

\* The dict `merged` after the loop has visited scan[1..k].
RECURSIVE MergedBy(_, _, _)
MergedBy(strategy, scan, k) ==
    IF k = 0 THEN [p \in {} |-> scan[1]]
    ELSE LET merged == MergedBy(strategy, scan, k - 1)
             r == scan[k]
             keeps == IF strategy = "priority" THEN KeepsPriority(merged, r)
                      ELSE KeepsLatest(merged, r)
         IN  IF keeps THEN (r.param :> r) @@ merged ELSE merged

\* strategy == "all": `result[p].append({...})` for every row of the scan,
\* the entry of parameter p in the dict returned: one record per row of the
\* parameter, in scan order, rows alike in every field returned included.
AllOf(scan, param) ==
    LET mine == RowsOfParam(scan, param)
    IN  [param |-> param, variants |-> [i \in 1..Len(mine) |-> SpecRecord(mine[i])]]

\* The body get_specs returns for one scan order of the table: the rows
\* (view raw), one entry per parameter with the list of its records
\* (strategy all), or one record per parameter.
SpecsBody(view, strategy, scan) ==
    IF scan = << >> THEN {}
    ELSE IF view = "raw" THEN { scan[i] : i \in 1..Len(scan) }
    ELSE IF strategy = "all"
    THEN { AllOf(scan, p) : p \in { scan[i].param : i \in 1..Len(scan) } }
    ELSE LET merged == MergedBy(strategy, scan, Len(scan))
         IN  { SpecRecord(merged[p]) : p \in DOMAIN merged }

NoResponse == [view |-> "", strategy |-> "", body |-> {}]

\* --------------------------------------------------------- manual override
\* str(value).strip() of the override values of the model.
StripValue(value) == StripOf[value]

\* " ".join(parts[:-1]) of a free-text override.
RECURSIVE JoinTokens(_)
JoinTokens(parts) ==
    IF parts = << >> THEN ""
    ELSE IF Len(parts) = 1 THEN parts[1]
    ELSE parts[1] \o " " \o JoinTokens(Tail(parts))

\* An entry of the payload: a structured object (form "dict": value and unit,
\* "" when the key is absent; source, "" when absent) or a bare string (form
\* "text": its whitespace-separated parts).
DictEntry(param, value, unit, source) ==
    [param |-> param, form |-> "dict", value |-> value, unit |-> unit,
     source |-> source, parts |-> << >>]
TextEntry(param, parts) ==
    [param |-> param, form |-> "text", value |-> "", unit |-> "", source |-> "",
     parts |-> parts]

OverrideParams == { "cap_diameter", "coating_required" }

OverrideEntries ==
    UNION { { DictEntry(p, "5", "mm", ""), DictEntry(p, "7", "", ""),
              DictEntry(p, "5", "mm", "MANUAL"), DictEntry(p, " ", "mm", ""),
              TextEntry(p, << "7", "mm" >>) } : p \in OverrideParams }
    \cup { TextEntry("cap_diameter", << "7", "8", "mm" >>) }

\* A payload is a non-empty mapping, its entries in order, one per parameter:
\* every single entry, and two payloads of two entries.
Payloads ==
    { << e >> : e \in OverrideEntries }
    \cup { << DictEntry("cap_diameter", " ", "mm", ""),
              DictEntry("coating_required", "5", "mm", "") >>,
           << DictEntry("coating_required", "7", "", ""),
              DictEntry("cap_diameter", "5", "mm", "") >> }

\* value, unit and source as update_specs reads them off an entry.
EntryValue(e) ==
    IF e.form = "dict" THEN e.value
    ELSE IF Len(e.parts) = 1 THEN e.parts[1]
    ELSE IF Len(e.parts) >= 2 THEN JoinTokens(SubSeq(e.parts, 1, Len(e.parts) - 1))
    ELSE ""
EntryUnit(e) ==
    IF e.form = "dict" THEN e.unit
    ELSE IF Len(e.parts) >= 2 THEN e.parts[Len(e.parts)]
    ELSE ""
EntrySource(e) ==
    IF e.form = "dict" /\ e.source # "" THEN e.source ELSE "USER"

\* `if value is None or str(value).strip() == "": continue`
SkippedMissing(e) == EntryValue(e) = ""
Skipped(e) == StripValue(EntryValue(e)) = ""

\* db.query(MasterSpec).filter(param == param, source == "USER").first() on
\* the committed table: the position of the first such row, 0 when none.
RECURSIVE FirstUser(_, _, _)
FirstUser(committed, param, i) ==
    IF i > Len(committed) THEN 0
    ELSE IF committed[i].param = param /\ committed[i].source = "USER" THEN i
    ELSE FirstUser(committed, param, i + 1)

ApiMeta == [kind |-> "api", filename |-> "", extraction_id |-> 0]

\* The write of update_specs for one accepted entry, `i` being what its
\* lookup returned: the USER row at position i is re-written, or (i = 0) a
\* row added.
WriteOverride(rows, i, e, now) ==
    LET value == EntryValue(e)
        unit == EntryUnit(e)
    IN  IF i # 0
        THEN [rows EXCEPT ![i] =
                 [@ EXCEPT !.value = Str(StripValue(value)),
                           !.unit = IF unit # "" THEN unit ELSE @,
                           !.raw = UserEditRaw(value, unit),
                           !.meta = ApiMeta,
                           !.priority = 0]]
        ELSE Append(rows, MasterSpec(NextId(rows), e.param, Str(StripValue(value)), unit,
                                     UserEditRaw(value, unit), EntrySource(e), 0,
                                     ApiMeta, now))

\* One iteration of the loop of update_specs.
UserUpsertReplacing(rows, committed, e, now) ==
    LET i == FirstUser(committed, e.param, 1)
        kept == IF i = 0 THEN rows
                ELSE SelectSeq(rows, LAMBDA r : r.id # committed[i].id)
    IN  IF Skipped(e) THEN rows
        ELSE Append(kept, MasterSpec(NextId(rows), e.param, Str(StripValue(EntryValue(e))),
                                     EntryUnit(e), UserEditRaw(EntryValue(e), EntryUnit(e)),
                                     EntrySource(e), 0, ApiMeta, now))
UserUpsertAppending(rows, committed, e, now) ==
    IF Skipped(e) THEN rows ELSE WriteOverride(rows, 0, e, now)
UserUpsert(rows, committed, e, now) ==
    IF Skipped(e) THEN rows
    ELSE WriteOverride(rows, FirstUser(committed, e.param, 1), e, now)

\* The loop of update_specs over payload[1..k], committed at its end;
\* stamps[k] is what func.now() reads when the statement of entry k is flushed.
RECURSIVE UpdateAll(_, _, _, _)
UpdateAll(committed, payload, k, stamps) ==
    IF k = 0 THEN committed
    ELSE UserUpsert(UpdateAll(committed, payload, k - 1, stamps),
                    committed, payload[k], stamps[k])

\* ------------------------------------------------------ defect rule engine
\* A cell pandas read as empty: float('nan').
NaN == [k |-> "nan", n |-> 0, s |-> ""]

\* A row of DEFECT_RULES. special is a cell of the rule file: Str(tag), NaN
\* when the cell is empty, Str("") when the file has no such column (the
\* default of rule.get("special", "")). spec_name and field are "" when absent.
Rule(defect_type, special, spec_name, field, op, ok, fail) ==
    [defect_type |-> defect_type, special |-> special, spec_name |-> spec_name,
     field |-> field, op |-> op, ok |-> ok, fail |-> fail]

\* What ends a call of the engine that raises.
AttributeError == "AttributeError"

\* (x or "").lower() of a defect_type cell: NaN is truthy and has no lower().
\* A non-zero number is truthy too and has none either.
TypeKey(cell) ==
    IF cell.k = "nan" \/ (cell.k = "num" /\ cell.n # 0) THEN [raised |-> TRUE, key |-> ""]
    ELSE IF cell.k = "str" THEN [raised |-> FALSE, key |-> LowerText(cell.s)]
    ELSE [raised |-> FALSE, key |-> ""]

\* float(x) of a spec value or field value: ValueError (ok = FALSE) for a
\* text that is no number; nan = TRUE for a float that prints as a name (nan,
\* inf, -inf), which the eval of the comparison cannot resolve.
FloatOfValue(v) ==
    IF v.k = "num" THEN [ok |-> TRUE, nan |-> FALSE, n |-> v.n]
    ELSE IF v.k = "nan" THEN [ok |-> TRUE, nan |-> TRUE, n |-> 0]
    ELSE LET f == FloatOfChars(Chars(v.s))
         IN  [ok |-> f.ok, nan |-> f.ok /\ f.kind # "fin", n |-> f.n]

\* eval(f"{val_num} {op} {spec_num}") for op among the five operators.
EvalOp(val_num, op, spec_num) ==
    CASE op = "<=" -> val_num <= spec_num
      [] op = "<"  -> val_num < spec_num
      [] op = ">=" -> val_num >= spec_num
      [] op = ">"  -> val_num > spec_num
      [] op = "==" -> val_num = spec_num

\* str(x).lower() where the engine compares texts: the lower-cased text of a
\* string, and "nan" for an empty cell (str(float("nan")) is "nan"). A finite
\* number stays a value of its own kind: the engine gets here with one only
\* when the other operand is a text that is no finite number, which the
\* digits str() prints never equal.
LowerValue(v) ==
    IF v.k = "str" THEN Str(LowerText(v.s))
    ELSE IF v.k = "nan" THEN Str("nan")
    ELSE v

\* merged_master.get(name, {}).get("chosen"): NoVariant is None.
ChosenOf(merged, name) ==
    IF name \in DOMAIN merged THEN merged[name].chosen ELSE NoVariant

\* `not spec_info.get("value")`: the value is None or the empty string.
Falsy(value) == value.k = "none" \/ (value.k = "str" /\ value.s = "")

OPERATORS == { "<=", "<", ">=", ">", "==" }

\* The comparison of a normal rule, from `try:` on.
CompareWithRule(rule, spec_val, field_val) ==
    LET spec_num == FloatOfValue(spec_val)
        val_num == FloatOfValue(field_val)
        comparable == spec_val.k # "none" /\ field_val.k # "none"
        raised == ~spec_num.ok \/ ~val_num.ok \/ spec_num.nan \/ val_num.nan
    IN  IF comparable /\ rule.op \in OPERATORS /\ ~raised
        THEN (IF EvalOp(val_num.n, rule.op, spec_num.n) THEN rule.ok ELSE rule.fail)
        ELSE IF comparable /\ rule.op \in OPERATORS /\ raised /\ rule.op = "=="
        THEN (IF LowerValue(field_val) = LowerValue(spec_val) THEN rule.ok ELSE rule.fail)
        ELSE "Unknown3"

\* The normal rule: resolve the spec, then compare.
NormalRule(rule, defect, merged) ==
    LET spec_info == IF rule.spec_name # "" THEN ChosenOf(merged, rule.spec_name)
                     ELSE NoVariant
        spec_val == IF spec_info # NoVariant THEN spec_info.value ELSE NoneVal
        field_val == IF rule.field # "" /\ rule.field \in DOMAIN defect.fields
                     THEN defect.fields[rule.field] ELSE NoneVal
    IN  IF rule.spec_name # "" /\ (spec_info = NoVariant \/ Falsy(spec_info.value))
        THEN "Unknown2"
        ELSE CompareWithRule(rule, spec_val, field_val)

\* The coating rule.
CoatingRuleExact(rule, merged) ==
    LET coating_info == ChosenOf(merged, "coating_required")
    IN  IF /\ coating_info # NoVariant
           /\ coating_info.value \in { Str("yes"), Str("true"), Str("1") }
        THEN rule.fail
        ELSE rule.ok
CoatingRule(rule, merged) ==
    LET coating_info == ChosenOf(merged, "coating_required")
    IN  IF /\ coating_info # NoVariant
           /\ coating_info.value.k = "str"
           /\ LowerText(coating_info.value.s) \in { "yes", "true", "1" }
        THEN rule.fail
        ELSE rule.ok

\* classify_defect_with_master(defect, merged_master) with DEFECT_RULES = rules.
\* The selection of the matching rows lower-cases the defect_type of every row
\* of the table, and raises on the first row whose cell has no lower().
classify_defect_with_master(defect, merged, rules) ==
    LET dtype == TypeKey(defect.defect_type)
        matching == SelectSeq(rules, LAMBDA r : TypeKey(r.defect_type).key = dtype.key)
        rule == matching[1]
    IN  IF dtype.raised THEN AttributeError
        ELSE IF \E i \in 1..Len(rules) : TypeKey(rules[i].defect_type).raised
        THEN AttributeError
        ELSE IF matching = << >> THEN "Unknown1"
        ELSE IF rule.special.k # "str" THEN AttributeError
        ELSE IF LowerText(rule.special.s) = "always_fail" THEN rule.fail
        ELSE IF LowerText(rule.special.s) = "coating" THEN CoatingRule(rule, merged)
        ELSE NormalRule(rule, defect, merged)

\* ----------------------------------------------------------------- actions
\* No function is under application.
NoCall == [fn |-> "none"]

Init ==
    /\ master_specs = << >>
    /\ raw_extractions = << >>
    /\ clock = 0
    /\ parsed_by_source = << >>
    /\ merged_master = << >>
    /\ response = NoResponse
    /\ n_runs = 0
    /\ n_updates = 0
    /\ last_run = {}
    /\ last_payload = << >>
    /\ prev_specs = << >>
    /\ rerun = FALSE
    /\ conc = << >>
    /\ EMBED_MODEL = "loaded"
    /\ scoring = "ok"
    /\ http_status = 0
    /\ call = NoCall
    /\ result = NoCall

\* The documents of a batch in processing order.
DocsOf(batch) ==
    LET idx == SelectSeq([i \in 1..Len(Corpus) |-> i], LAMBDA i : i \in batch)
    IN  [j \in 1..Len(idx) |-> Corpus[idx[j]]]

\* The Raw Extraction record written for document j of a run.
RawExtraction(doc, id, now) ==
    [id |-> id, source |-> doc.filename, origin |-> "",
     type |-> source_type_and_priority(doc.suffix).stype, created_at |-> now]

\* A processing request taken commit by commit. call holds the request in
\* progress: its orchestrator (path "s3" for process_all_and_build_master_from_s3,
\* "local" for process_all_and_build_master, "debug" for debug_test_processing
\* with its one hard-coded document), its documents, the next document j, the
\* number of Raw Extraction records stored when it began, what it has parsed,
\* whether one of its writes has raised, and whether it repeats the run before
\* it. result holds how the last request of the kind ended. The handlers are
\* coroutines without a suspension point: a process serves its requests one
\* after the other, so no other request of the process falls between two
\* steps (the requests of several processes are taken up further down).
RunPaths == { "s3", "local" }

BeginRun(batch, path, clf) ==
    /\ call = NoCall
    /\ n_runs + n_updates < MaxWrites
    /\ call' = [fn |-> "run", path |-> path, batch |-> batch, j |-> 1,
                first_id |-> Len(raw_extractions), pbs |-> << >>,
                db_failed |-> FALSE,
                rerun |-> (batch # {} /\ batch = last_run /\ clf = scoring)]
    /\ result' = NoCall
    /\ scoring' = clf
    /\ response' = NoResponse
    /\ n_runs' = n_runs + 1
    /\ last_run' = {}
    /\ last_payload' = << >>
    /\ prev_specs' = master_specs
    /\ rerun' = FALSE
    /\ http_status' = 0
    /\ UNCHANGED << master_specs, raw_extractions, clock, parsed_by_source,
                    merged_master, n_updates, conc, EMBED_MODEL >>

\* POST /debug/test-processing: a request of the same steps over one document
\* that is written into the handler.
debug_test_processing == BeginRun({}, "debug", scoring)

DebugDocument == [filename |-> "test_debug.txt", suffix |-> ".txt", lines |-> << >>]

\* The candidates the debug handler passes on for its document.
DebugParsed(extraction_id) ==
    LET variant(param, text, value) ==
            [param |-> param, value |-> Str(value), unit |-> "mm",
             raw |-> LineRaw(text), source |-> "DEBUG", priority |-> 1,
             filename |-> DebugDocument.filename, extraction_id |-> extraction_id]
    IN  << variant("cap_diameter", "Cap diameter: 25mm", "25"),
           variant("hole_diameter", "Hole diameter: 30mm", "30") >>

\* The documents of the request of c, in processing order.
RunDocs(c) == IF c.path = "debug" THEN << DebugDocument >> ELSE DocsOf(c.batch)

\* How a request that leaves the document loop or the build step ended:
\* "failed" is an exception that reaches the caller (HTTP 500 from
\* process_pipeline; the debug handler catches it and answers 200 with
\* status "error").
RunEnded(status) ==
    [fn |-> "run", path |-> call.path, status |-> status, batch |-> call.batch,
     first_id |-> call.first_id, db_failed |-> call.db_failed]

\* One document of the loop: download and text extraction, session.add(re_obj);
\* session.commit(), then the parse of its lines. "unreadable" is a download
\* that raises (s3) or a reader that raises (local), "write_failed" a commit
\* that raises. "no_text" is a reader that raises on the s3 path:
\* extract_text_for_s3_stream catches the exception and returns "", the record
\* of the document is committed and the document parses to no candidate.
\* After a commit that raised the session has not been rolled back, and every
\* later commit or query of the request raises as well. The s3 orchestrator's
\* `except Exception` logs and goes on to the next document; the local
\* orchestrator has no handler and the exception leaves the run; the debug
\* handler catches it at its end.
DocumentOutcomes == { "ok", "no_text", "unreadable", "write_failed" }

ProcessDocument(outcome) ==
    /\ call.fn = "run"
    /\ call.j <= Len(RunDocs(call))
    /\ outcome \in { "ok", "no_text" } => ~call.db_failed
    /\ outcome = "no_text" => call.path = "s3"
    /\ outcome = "unreadable" => call.path # "debug"
    /\ LET doc == RunDocs(call)[call.j]
           id == Len(raw_extractions) + 1
           record(now) == IF call.path = "debug"
                          THEN [RawExtraction(doc, id, now) EXCEPT !.type = "DEBUG"]
                          ELSE RawExtraction(doc, id, now)
           parsed == IF outcome = "no_text" THEN << >>
                     ELSE IF call.path = "debug" THEN DebugParsed(id)
                     ELSE ParseLines(doc, id, Len(doc.lines), EMBED_MODEL, scoring)
       IN  IF outcome \in { "ok", "no_text" }
           THEN /\ \E now \in NowAfter(clock) :
                       /\ raw_extractions' = Append(raw_extractions, record(now))
                       /\ clock' = now
                /\ call' = [call EXCEPT
                              !.j = @ + 1,
                              !.pbs = Append(@, [filename |-> doc.filename,
                                                 parsed |-> parsed])]
                /\ UNCHANGED << result, http_status >>
           ELSE IF call.path = "s3"
           THEN /\ call' = [call EXCEPT
                              !.j = @ + 1,
                              !.db_failed = @ \/ outcome = "write_failed"]
                /\ UNCHANGED << raw_extractions, clock, result, http_status >>
           ELSE /\ call' = NoCall
                /\ result' = [RunEnded("failed") EXCEPT
                                !.db_failed = outcome = "write_failed"]
                /\ http_status' = IF call.path = "debug" THEN 200 ELSE 500
                /\ UNCHANGED << raw_extractions, clock >>
    /\ UNCHANGED << master_specs, parsed_by_source, merged_master, response,
                    n_runs, n_updates, last_run, last_payload, prev_specs, rerun,
                    conc, EMBED_MODEL, scoring >>

\* _build_master_from_parsed_data after the last document: the persist loop
\* and its commit, the merged master read back, the snapshot uploaded.
\* "commit_failed" is a query or the commit raising (the only outcome left to
\* a request one of whose writes has raised), "upload_failed" the upload
\* raising after the commit. A run returns what it parsed and the merged
\* master; the debug handler returns their sizes only.
BuildOutcomes == { "ok", "commit_failed", "upload_failed" }

BuildMaster(outcome) ==
    /\ call.fn = "run"
    /\ call.j > Len(RunDocs(call))
    /\ call.db_failed => outcome = "commit_failed"
    /\ call' = NoCall
    /\ result' = [RunEnded(IF outcome = "ok" THEN "ok" ELSE "failed") EXCEPT
                    !.db_failed = @ \/ outcome = "commit_failed"]
    /\ http_status' = IF outcome = "ok" \/ call.path = "debug" THEN 200 ELSE 500
    /\ IF outcome = "commit_failed"
       THEN UNCHANGED << master_specs, clock >>
       ELSE LET variants == PersistOrder(call.pbs, Len(CANONICAL))
            IN  \E stamps \in StampSeqs(clock, Len(variants)) :
                   /\ master_specs' = UpsertAll(master_specs, variants, Len(variants), stamps)
                   /\ clock' = ClockAfter(clock, master_specs, master_specs')
    /\ IF outcome = "ok" /\ call.path # "debug"
       THEN /\ parsed_by_source' = call.pbs
            /\ merged_master' \in MergedMasters(master_specs', Len(CANONICAL))
            /\ last_run' = call.batch
            /\ rerun' = call.rerun
       ELSE UNCHANGED << parsed_by_source, merged_master, last_run, rerun >>
    /\ UNCHANGED << raw_extractions, response, n_runs, n_updates, last_payload,
                    prev_specs, conc, EMBED_MODEL, scoring >>

\* update_specs with a non-empty payload.
UpdateSpecs(payload) ==
    /\ call = NoCall
    /\ n_runs + n_updates < MaxWrites
    /\ \E stamps \in StampSeqs(clock, Len(payload)) :
          /\ master_specs' = UpdateAll(master_specs, payload, Len(payload), stamps)
          /\ clock' = ClockAfter(clock, master_specs, master_specs')
    /\ response' = NoResponse
    /\ n_updates' = n_updates + 1
    /\ last_run' = {}
    /\ last_payload' = payload
    /\ prev_specs' = master_specs
    /\ rerun' = FALSE
    /\ http_status' = 200
    /\ UNCHANGED << raw_extractions, parsed_by_source, merged_master, n_runs, conc,
                    EMBED_MODEL, scoring, call, result >>

\* Bodies update_specs rejects: the empty mapping {} and a body that is not a
\* mapping (a list).
BadPayloads == { "empty", "list" }

\* update_specs with such a body: HTTP 400 before the session is opened.
UpdateRejected(bad) ==
    /\ call = NoCall
    /\ http_status' = 400
    /\ response' = NoResponse
    /\ last_run' = {}
    /\ last_payload' = << >>
    /\ prev_specs' = master_specs
    /\ rerun' = FALSE
    /\ UNCHANGED << master_specs, raw_extractions, clock, parsed_by_source,
                    merged_master, n_runs, n_updates, conc, EMBED_MODEL, scoring,
                    call, result >>

\* The queries: view=merged with each strategy, and view=raw (which ignores
\* the strategy, left at its default).
Queries ==
    { [view |-> "merged", strategy |-> "priority"],
      [view |-> "merged", strategy |-> "latest"],
      [view |-> "merged", strategy |-> "all"],
      [view |-> "raw", strategy |-> "priority"] }

\* get_specs(view, strategy) on the current store. A query leaves the store
\* as it is, so the model keeps the answer of one query per state of the
\* store: a second query before the next write would answer as the first.
GetSpecs(view, strategy) ==
    /\ call = NoCall
    /\ response = NoResponse
    /\ \E scan \in IF master_specs = << >> THEN { << >> } ELSE ScanOrders(master_specs) :
          response' = [view |-> view, strategy |-> strategy,
                       body |-> SpecsBody(view, strategy, scan)]
    /\ UNCHANGED << master_specs, raw_extractions, clock, parsed_by_source,
                    merged_master, n_runs, n_updates, last_run, last_payload,
                    prev_specs, rerun, conc, EMBED_MODEL, scoring, http_status,
                    call, result >>

Next ==
    \/ \E batch \in Batches, path \in RunPaths : BeginRun(batch, path, "ok")
    \/ debug_test_processing
    \/ ProcessDocument("ok")
    \/ BuildMaster("ok")
    \/ \E payload \in Payloads : UpdateSpecs(payload)
    \/ \E q \in Queries : GetSpecs(q.view, q.strategy)

Spec == Init /\ [][Next]_vars

\* --------------------------------------------------------- faulty requests
\* The write requests of the store with their failure cases: the embedding
\* model may have failed to load when the process started, scoring may raise
\* during a run, and update_specs may be sent a body it rejects.
InitFaults ==
    /\ master_specs = << >>
    /\ raw_extractions = << >>
    /\ clock = 0
    /\ parsed_by_source = << >>
    /\ merged_master = << >>
    /\ response = NoResponse
    /\ n_runs = 0
    /\ n_updates = 0
    /\ last_run = {}
    /\ last_payload = << >>
    /\ prev_specs = << >>
    /\ rerun = FALSE
    /\ conc = << >>
    /\ EMBED_MODEL \in { "loaded", "none" }
    /\ scoring = "ok"
    /\ http_status = 0
    /\ call = NoCall
    /\ result = NoCall

\* Payloads with entries update_specs skips: a value that is absent, a bare
\* string of whitespace, and a skipped entry after one that is written.
FaultPayloads ==
    Payloads
    \cup { << DictEntry("cap_diameter", "", "mm", "") >>,
           << TextEntry("cap_diameter", << >>) >>,
           << DictEntry("coating_required", "7", "", ""),
              DictEntry("cap_diameter", "", "mm", "") >> }

NextFaults ==
    \/ \E batch \in Batches, path \in RunPaths, clf \in Scorings : BeginRun(batch, path, clf)
    \/ ProcessDocument("ok")
    \/ BuildMaster("ok")
    \/ \E payload \in FaultPayloads : UpdateSpecs(payload)
    \/ \E bad \in BadPayloads : UpdateRejected(bad)

SpecFaults == InitFaults /\ [][NextFaults]_vars

\* ------------------------------------------------- classification of defects
\* The rule engine applied to one defect record, as run_defect_mapping applies
\* it to every row of the defect table, for rule tables, records and merged
\* masters drawn from the sets below.
SPECIALS == { Str(""), NaN, Str("always_fail"), Str("coating"), Str("Coating") }

RuleRows ==
    { Rule(Str("dent"), special, spec_name, "measured", op, "Repairable", "Not Repairable") :
        special \in SPECIALS, spec_name \in { "max_pressure", "" },
        op \in OPERATORS \cup { "!=" } }

\* Rule tables: every single row, tables of two rows for the same type (the
\* first one is used), and a table with a row whose defect_type cell is blank
\* in the sheet (NaN).
RuleTables ==
    { << r >> : r \in RuleRows }
    \cup { << Rule(Str("dent"), Str("always_fail"), "", "", "", "Scrap", "Reject"),
              Rule(Str("dent"), Str(""), "max_pressure", "measured", "<=",
                   "Repairable", "Not Repairable") >>,
           << Rule(Str("crack"), Str("always_fail"), "", "", "", "Scrap", "Reject"),
              Rule(Str("Dent"), Str(""), "max_pressure", "measured", ">",
                   "Repairable", "Not Repairable") >>,
           << Rule(Str("dent"), Str("always_fail"), "", "", "", "Scrap", "Reject"),
              Rule(NaN, Str(""), "max_pressure", "measured", "<=",
                   "Repairable", "Not Repairable") >> }

\* Cells of the column a rule reads off the defect record.
FieldCells ==
    { NaN, Num(8000), Num(10000), Num(12000), Str("8"), Str("steel"), Str("Steel"),
      Str("brass") }

DefectRecords ==
    { [defect_type |-> t, fields |-> f] :
        t \in { Str("Dent"), Str("crack"), NaN, NoneVal },
        f \in { [x \in {} |-> NaN] } \cup { [x \in { "measured" } |-> c] : c \in FieldCells } }

\* A chosen variant carrying `value`.
ChosenWith(param, value) ==
    ApiVariant(MasterSpec(1, param, value, "", LineRaw(""), "DOCX", 1,
                          [kind |-> "extraction", filename |-> "a.docx", extraction_id |-> 1],
                          1))

\* Merged masters that hold at most the entry of `param`: none, one without a
\* chosen variant, one per value.
MastersFor(param, values) ==
    { [p \in {} |-> NoVariant] }
    \cup { [p \in { param } |-> [chosen |-> NoVariant, variants |-> {}]] }
    \cup { [p \in { param } |-> [chosen |-> ChosenWith(param, v),
                                variants |-> { ChosenWith(param, v) }]] : v \in values }

RuleMasters ==
    MastersFor("max_pressure",
               { NoneVal, Str(""), Num(10000), Str("10"), Str("steel"), Str("STEEL"),
                 Str("nan"), Str("NaN") })
    \cup MastersFor("coating_required",
                    { Str("yes"), Str("YES"), Str("True"), Str("1"), Str("no"),
                      Str("yes please"), Num(1000), NoneVal })

InitRules ==
    /\ master_specs = << >>
    /\ raw_extractions = << >>
    /\ clock = 0
    /\ parsed_by_source = << >>
    /\ merged_master = << >>
    /\ response = NoResponse
    /\ n_runs = 0
    /\ n_updates = 0
    /\ last_run = {}
    /\ last_payload = << >>
    /\ prev_specs = << >>
    /\ rerun = FALSE
    /\ conc = << >>
    /\ EMBED_MODEL = "loaded"
    /\ scoring = "ok"
    /\ http_status = 0
    /\ call \in { [fn |-> "classify", rules |-> t, defect |-> d, merged_master |-> m] :
                    t \in RuleTables, d \in DefectRecords, m \in RuleMasters }
    /\ result = NoCall

\* df.apply(lambda r: classify_defect_with_master(r.to_dict(), merged_master))
\* on one row.
Classify ==
    /\ call.fn = "classify"
    /\ result = NoCall
    /\ result' = [fn |-> "classify",
                  decision |-> classify_defect_with_master(call.defect, call.merged_master,
                                                           call.rules)]
    /\ UNCHANGED << master_specs, raw_extractions, clock, parsed_by_source,
                    merged_master, response, n_runs, n_updates, last_run,
                    last_payload, prev_specs, rerun, conc, EMBED_MODEL, scoring,
                    http_status, call >>

NextRules == Classify

SpecRules == InitRules /\ [][NextRules]_vars

\* ------------------------------------------------------ unit normalization
\* normalize_numeric applied to values, units and targets drawn from the sets
\* below.
NormValues ==
    { "10", "100", "14.5", "±0.5", "-2", "TBD", "1.2.3", "", "inf", "-inf",
      "Infinity", "nan", "1e3", "1E-2", ".5", "5.", "1_0", "_1" }
NormUnits == { "", "mm", "cm", "CM", "m", "µm", "um", "micron", "bar", "psi", "f", "kg" }
NormTargets == { "mm", "um", "bar", "C", "c" }

InitNorm ==
    /\ master_specs = << >>
    /\ raw_extractions = << >>
    /\ clock = 0
    /\ parsed_by_source = << >>
    /\ merged_master = << >>
    /\ response = NoResponse
    /\ n_runs = 0
    /\ n_updates = 0
    /\ last_run = {}
    /\ last_payload = << >>
    /\ prev_specs = << >>
    /\ rerun = FALSE
    /\ conc = << >>
    /\ EMBED_MODEL = "loaded"
    /\ scoring = "ok"
    /\ http_status = 0
    /\ call \in { [fn |-> "normalize", value |-> v, unit |-> u, target |-> t] :
                    v \in NormValues, u \in NormUnits, t \in NormTargets }
    /\ result = NoCall

Normalize ==
    /\ call.fn = "normalize"
    /\ result = NoCall
    /\ result' = [fn |-> "normalize",
                  value |-> normalize_numeric(call.value, call.unit, call.target)]
    /\ UNCHANGED << master_specs, raw_extractions, clock, parsed_by_source,
                    merged_master, response, n_runs, n_updates, last_run,
                    last_payload, prev_specs, rerun, conc, EMBED_MODEL, scoring,
                    http_status, call >>

NextNorm == Normalize

SpecNorm == InitNorm /\ [][NextNorm]_vars

\* ------------------------------------------------------ value extraction
\* extract_value_unit applied to lines put together from a prefix without
\* digits, a numeric token, optional whitespace, a unit token and a suffix.
LinePrefixes ==
    { << >>, << "t", " " >>,
      << "C", "a", "p", " ", "d", "i", "a", "m", "e", "t", "e", "r", ":", " " >> }
NumericTokens == { << "2", "5" >>, << "0", ".", "5" >>, << "±", "0", ".", "5" >> }
Separators == { << >>, << " " >> }
UnitTokens ==
    { << "m", "m" >>, << "M", "M" >>, << "c", "m" >>, << "C", "m" >>, << "m" >>,
      << "M" >>, << "µ", "m" >>, << "u", "m" >>, << "U", "M" >>,
      << "m", "i", "c", "r", "o", "n" >>, << "M", "i", "c", "r", "o", "n" >>,
      << "b", "a", "r" >>, << "B", "a", "r" >>, << "p", "s", "i" >>,
      << "P", "S", "I" >>, << "°", "C" >>, << "°", "c" >>, << "C" >>, << "c" >>,
      << "F" >>, << "f" >> }
LineSuffixes == { << >>, << " ", "m", "a", "x" >> }

LineOf(c) == c.prefix \o c.number \o c.sep \o c.unit \o c.suffix

InitExtract ==
    /\ master_specs = << >>
    /\ raw_extractions = << >>
    /\ clock = 0
    /\ parsed_by_source = << >>
    /\ merged_master = << >>
    /\ response = NoResponse
    /\ n_runs = 0
    /\ n_updates = 0
    /\ last_run = {}
    /\ last_payload = << >>
    /\ prev_specs = << >>
    /\ rerun = FALSE
    /\ conc = << >>
    /\ EMBED_MODEL = "loaded"
    /\ scoring = "ok"
    /\ http_status = 0
    /\ call \in { [fn |-> "extract", prefix |-> p, number |-> n, sep |-> w,
                   unit |-> u, suffix |-> x] :
                    p \in LinePrefixes, n \in NumericTokens, w \in Separators,
                    u \in UnitTokens, x \in LineSuffixes }
    /\ result = NoCall

Extract ==
    /\ call.fn = "extract"
    /\ result = NoCall
    /\ result' = [fn |-> "extract"] @@ ExtractChars(LineOf(call))
    /\ UNCHANGED << master_specs, raw_extractions, clock, parsed_by_source,
                    merged_master, response, n_runs, n_updates, last_run,
                    last_payload, prev_specs, rerun, conc, EMBED_MODEL, scoring,
                    http_status, call >>

NextExtract == Extract

SpecExtract == InitExtract /\ [][NextExtract]_vars

\* ------------------------------------------------------- runs with faults
\* The runs of the store with every outcome of their steps: a document that
\* cannot be read, a write to the database that raises, an upload of the
\* snapshot that raises.
NextSteps ==
    \/ \E batch \in Batches, path \in RunPaths : BeginRun(batch, path, "ok")
    \/ debug_test_processing
    \/ \E outcome \in DocumentOutcomes : ProcessDocument(outcome)
    \/ \E outcome \in BuildOutcomes : BuildMaster(outcome)

SpecSteps == Init /\ [][NextSteps]_vars

\* ------------------------------------------------------ concurrent requests
\* Two requests served at the same time (two worker processes on the one
\* database). Each commits the Raw Extraction record of a document on its
\* own, runs its lookups against the rows committed so far, keeps its writes
\* pending in its own session and commits them at its end; a run then reads
\* the table back, one query per catalog parameter, each on the rows
\* committed at its moment. The table has no unique constraint and the
\* handlers take no lock. A commit is the flush of the session, one INSERT
\* after the other, each drawing the id and reading the stamp of its row,
\* and then COMMIT, which is when the rows become visible to the other
\* worker. conc[w] holds the request of worker w: its position
\* pc, its documents and the next one j, the record it has inserted and not
\* committed (pend), the id of the record it committed last, what it has
\* parsed, its variants or entries, what its lookups found, the ids and the
\* stamps of the rows it has inserted and not committed, when its open
\* transaction began (0 when none is open), and the entries of the merged
\* master it has read.
\* The database db.py connects to: func.now() is the start of the
\* transaction on PostgreSQL (a reading of its own for every transaction) and
\* the second of the INSERT, which the commit flushes, on SQLite.
Dialects == { "postgresql", "sqlite" }

Idle(dialect) ==
    [pc |-> "idle", kind |-> "", dialect |-> dialect, batch |-> {}, j |-> 0,
     pend |-> << >>, rec |-> 0, parsed |-> << >>, variants |-> << >>,
     entries |-> << >>, found |-> << >>, ids |-> << >>, stamps |-> << >>,
     start |-> 0, merged |-> << >>]

Workers == { 1, 2 }

\* The requests the two workers are given. Runs: worker 1 over b.docx or over
\* a.docx and c.pdf, worker 2 over b.docx (the documents hold the line of
\* cap_diameter b.docx holds), so two runs over the same document are served
\* together, and a run over two documents with a run over one. Overrides:
\* two of cap_diameter and one of coating_required.
ConcBatches(w) == IF w = 1 THEN { { 2 }, { 1, 3 } } ELSE { { 2 } }
ConcPayloads ==
    { << TextEntry("cap_diameter", << "7", "mm" >>) >>,
      << DictEntry("cap_diameter", "5", "mm", "") >>,
      << DictEntry("coating_required", "7", "", "") >> }

InitConc ==
    /\ master_specs = << >>
    /\ raw_extractions = << >>
    /\ clock = 0
    /\ parsed_by_source = << >>
    /\ merged_master = << >>
    /\ response = NoResponse
    /\ n_runs = 0
    /\ n_updates = 0
    /\ last_run = {}
    /\ last_payload = << >>
    /\ prev_specs = << >>
    /\ rerun = FALSE
    /\ \E dialect \in Dialects : conc = [w \in Workers |-> Idle(dialect)]
    /\ EMBED_MODEL = "loaded"
    /\ scoring = "ok"
    /\ http_status = 0
    /\ call = NoCall
    /\ result = NoCall

\* The stamps func.now() can give the INSERT worker w sends now: on
\* PostgreSQL the start of its transaction (this moment when the INSERT is
\* what begins it), on SQLite the second of the INSERT, no more than
\* MaxTurns after the first INSERT of the flush.
ConcStamps(w) ==
    IF conc[w].dialect = "postgresql"
    THEN { IF conc[w].start # 0 THEN conc[w].start ELSE clock + 1 }
    ELSE { now \in NowAfter(clock) :
             conc[w].stamps # << >> => now <= conc[w].stamps[1] + MaxTurns }

\* Worker w can send a statement that writes: SQLite gives the write lock of
\* the database to one connection, from its first write to its COMMIT, and
\* the write of another waits for it (no other worker has sent an INSERT it
\* has not committed); PostgreSQL locks the rows a statement updates, and a
\* request here updates only rows committed by a request that has no write
\* left.
MayWrite(w) ==
    conc[w].dialect = "sqlite" =>
        \A v \in Workers \ { w } : conc[v].pend = << >> /\ conc[v].ids = << >>

\* The id the database gives the row inserted next: one more than the ids
\* it has given, to rows committed and to rows inserted and not committed
\* (the sequence of the table on PostgreSQL, the rowid on SQLite).
ConcNextId(rows, given) ==
    LET taken == Ids(rows) \cup UNION { given[v] : v \in Workers }
    IN  IF taken = {} THEN 1
        ELSE (CHOOSE m \in taken : \A n \in taken : n <= m) + 1

\* A processing run starts on its documents.
ConcBeginRun(w, batch) ==
    /\ conc[w].pc = "idle"
    /\ conc' = [conc EXCEPT ![w].pc = "doc", ![w].kind = "run",
                            ![w].batch = batch, ![w].j = 1]
    /\ UNCHANGED << master_specs, raw_extractions, clock, parsed_by_source,
                    merged_master, response, n_runs, n_updates, last_run,
                    last_payload, prev_specs, rerun, EMBED_MODEL, scoring,
                    http_status, call, result >>

\* session.add(re_obj); session.commit() for the next document of a run,
\* up to the INSERT of its Raw Extraction record.
ConcDocument(w) ==
    /\ conc[w].pc = "doc"
    /\ MayWrite(w)
    /\ LET doc == DocsOf(conc[w].batch)[conc[w].j]
           id == ConcNextId(raw_extractions,
                            [v \in Workers |-> Ids(conc[v].pend)])
       IN  \E now \in ConcStamps(w) :
              /\ conc' = [conc EXCEPT ![w].pc = "stored",
                                      ![w].pend = << RawExtraction(doc, id, now) >>]
              /\ clock' = IF now > clock THEN now ELSE clock
    /\ UNCHANGED << master_specs, raw_extractions, parsed_by_source, merged_master,
                    response, n_runs, n_updates, last_run, last_payload, prev_specs,
                    rerun, EMBED_MODEL, scoring, http_status, call, result >>

\* The COMMIT of that session.commit(): the record is stored, which ends the
\* transaction.
ConcStore(w) ==
    /\ conc[w].pc = "stored"
    /\ raw_extractions' = Append(raw_extractions, conc[w].pend[1])
    /\ conc' = [conc EXCEPT ![w].pc = "parse", ![w].start = 0,
                            ![w].pend = << >>,
                            ![w].rec = conc[w].pend[1].id]
    /\ UNCHANGED << master_specs, clock, parsed_by_source, merged_master, response,
                    n_runs, n_updates, last_run, last_payload, prev_specs, rerun,
                    EMBED_MODEL, scoring, http_status, call, result >>

\* `extraction_id_by_file[filename] = re_obj.id` and the parse of the lines.
\* The commit has expired re_obj, so reading its id is a SELECT, which begins
\* the transaction the next flush of the run belongs to: the record of the
\* next document or, after the last one, the rows of the persist loop, whose
\* variants are collected here.
ConcParse(w) ==
    /\ conc[w].pc = "parse"
    /\ LET docs == DocsOf(conc[w].batch)
           doc == docs[conc[w].j]
           pbs == Append(conc[w].parsed,
                         [filename |-> doc.filename,
                          parsed |-> ParseLines(doc, conc[w].rec, Len(doc.lines),
                                                EMBED_MODEL, "ok")])
           variants == PersistOrder(pbs, Len(CANONICAL))
           begins == conc[w].dialect = "postgresql"
       IN  /\ conc' = [conc EXCEPT
                  ![w].parsed = pbs,
                  ![w].j = @ + 1,
                  ![w].start = IF begins THEN clock + 1 ELSE 0,
                  ![w].variants = IF conc[w].j = Len(docs) THEN variants ELSE << >>,
                  ![w].pc = IF conc[w].j < Len(docs) THEN "doc"
                            ELSE IF variants = << >> THEN "commit" ELSE "lookup"]
           /\ clock' = IF begins THEN clock + 1 ELSE clock
    /\ UNCHANGED << master_specs, raw_extractions, parsed_by_source, merged_master,
                    response, n_runs, n_updates, last_run, last_payload, prev_specs,
                    rerun, EMBED_MODEL, scoring, http_status, call, result >>

\* update_specs starts on a non-empty payload.
ConcBeginUpdate(w, payload) ==
    /\ conc[w].pc = "idle"
    /\ conc' = [conc EXCEPT ![w].pc = "lookup", ![w].kind = "update",
                            ![w].entries = payload]
    /\ UNCHANGED << master_specs, raw_extractions, clock, parsed_by_source,
                    merged_master, response, n_runs, n_updates, last_run,
                    last_payload, prev_specs, rerun, EMBED_MODEL,
                    scoring, http_status, call, result >>

\* The next lookup of a request, on the rows committed at this moment (a
\* skipped entry of a payload has no lookup). The first query of an override
\* begins its transaction; that of a run is open since the run read the id of
\* its last record.
ConcLookup(w) ==
    /\ conc[w].pc = "lookup"
    /\ LET k == Len(conc[w].found) + 1
           n == IF conc[w].kind = "run" THEN Len(conc[w].variants)
                ELSE Len(conc[w].entries)
           queried == conc[w].kind = "run" \/ ~Skipped(conc[w].entries[k])
           begins == queried /\ conc[w].start = 0 /\ conc[w].dialect = "postgresql"
           i == IF conc[w].kind = "run"
                THEN FirstMatch(master_specs, conc[w].variants[k], 1)
                ELSE IF Skipped(conc[w].entries[k]) THEN 0
                ELSE FirstUser(master_specs, conc[w].entries[k].param, 1)
       IN  /\ conc' = [conc EXCEPT ![w].found = Append(@, i),
                                   ![w].start = IF begins THEN clock + 1 ELSE @,
                                   ![w].pc = IF k = n THEN "commit" ELSE "lookup"]
           /\ clock' = IF begins THEN clock + 1 ELSE clock
    /\ UNCHANGED << master_specs, raw_extractions, parsed_by_source,
                    merged_master, response, n_runs, n_updates, last_run,
                    last_payload, prev_specs, rerun, EMBED_MODEL,
                    scoring, http_status, call, result >>

\* The pending writes of a request applied to the table, items[1..k]: a row
\* it adds carries the id and the stamp its INSERT was given.
RECURSIVE ConcWrites(_, _, _)
ConcWrites(rows, req, k) ==
    IF k = 0 THEN rows
    ELSE LET before == ConcWrites(rows, req, k - 1)
             n == Len(before) - Len(rows) + 1
             placed(written) ==
                 IF req.found[k] # 0 THEN written
                 ELSE [written EXCEPT ![Len(written)] =
                          [@ EXCEPT !.id = req.ids[n],
                                    !.uploaded_at = req.stamps[n],
                                    !.added_at = req.stamps[n]]]
         IN  IF req.kind = "run"
             THEN placed(WriteVariant(before, req.found[k], req.variants[k], 0))
             ELSE IF Skipped(req.entries[k]) THEN before
             ELSE placed(WriteOverride(before, req.found[k], req.entries[k], 0))

\* The rows a request adds: one for each lookup that found none.
ConcInserts(req) ==
    Cardinality({ k \in 1..Len(req.found) :
                    /\ req.found[k] = 0
                    /\ req.kind = "run" \/ ~Skipped(req.entries[k]) })

\* session.commit() / db.commit() of a request, its flush: the next INSERT,
\* whose row is given its id and stamped by func.now() as the INSERT reads it.
ConcInsert(w) ==
    /\ conc[w].pc = "commit"
    /\ Len(conc[w].ids) < ConcInserts(conc[w])
    /\ MayWrite(w)
    /\ LET id == ConcNextId(master_specs,
                            [v \in Workers |->
                                { conc[v].ids[n] : n \in 1..Len(conc[v].ids) }])
       IN  \E now \in ConcStamps(w) :
              /\ conc' = [conc EXCEPT ![w].ids = Append(@, id),
                                      ![w].stamps = Append(@, now)]
              /\ clock' = IF now > clock THEN now ELSE clock
    /\ UNCHANGED << master_specs, raw_extractions, parsed_by_source, merged_master,
                    response, n_runs, n_updates, last_run, last_payload, prev_specs,
                    rerun, EMBED_MODEL, scoring, http_status, call, result >>

\* The COMMIT of that commit, after the last INSERT: the rows the request
\* re-wrote and the rows it inserted reach the table. A request that
\* inserted none sends its UPDATEs here.
ConcCommit(w) ==
    /\ conc[w].pc = "commit"
    /\ Len(conc[w].ids) = ConcInserts(conc[w])
    /\ (\E k \in 1..Len(conc[w].found) : conc[w].found[k] # 0) => MayWrite(w)
    /\ master_specs' = ConcWrites(master_specs, conc[w], Len(conc[w].found))
    /\ conc' = [conc EXCEPT ![w].pc = IF conc[w].kind = "run" THEN "read" ELSE "done",
                            ![w].ids = << >>, ![w].stamps = << >>,
                            ![w].start = 0]
    /\ UNCHANGED << raw_extractions, clock, parsed_by_source, merged_master, response,
                    n_runs, n_updates, last_run, last_payload, prev_specs, rerun,
                    EMBED_MODEL, scoring, http_status, call, result >>

\* The next query of a run's read-back: the rows of one catalog parameter as
\* committed at this moment, and the entry of the merged master made of them.
\* After the last one the run returns what it parsed and the merged master.
ConcRead(w) ==
    /\ conc[w].pc = "read"
    /\ LET i == Len(conc[w].merged) + 1
       IN  \E e \in MergedEntries(master_specs, CANONICAL[i]) :
              LET read == Append(conc[w].merged, e)
              IN  /\ conc' = [conc EXCEPT
                         ![w].merged = read,
                         ![w].pc = IF i = Len(CANONICAL) THEN "done" ELSE "read"]
                  /\ IF i = Len(CANONICAL)
                     THEN /\ parsed_by_source' = conc[w].parsed
                          /\ merged_master' = [p \in CanonicalParams |->
                                 read[CHOOSE n \in 1..Len(CANONICAL) : CANONICAL[n] = p]]
                     ELSE UNCHANGED << parsed_by_source, merged_master >>
    /\ UNCHANGED << master_specs, raw_extractions, clock, response, n_runs,
                    n_updates, last_run, last_payload, prev_specs, rerun,
                    EMBED_MODEL, scoring, http_status, call, result >>

NextConc ==
    \/ \E w \in Workers : \E batch \in ConcBatches(w) : ConcBeginRun(w, batch)
    \/ \E w \in Workers : ConcDocument(w)
    \/ \E w \in Workers : ConcStore(w)
    \/ \E w \in Workers : ConcParse(w)
    \/ \E w \in Workers, payload \in ConcPayloads : ConcBeginUpdate(w, payload)
    \/ \E w \in Workers : ConcLookup(w)
    \/ \E w \in Workers : ConcInsert(w)
    \/ \E w \in Workers : ConcCommit(w)
    \/ \E w \in Workers : ConcRead(w)

SpecConc == InitConc /\ [][NextConc]_vars

\* ------------------------------------------------------------------ claims
RowsWith(rows, param) == { i \in 1..Len(rows) : rows[i].param = param }
StoredParams(rows) == { rows[i].param : i \in 1..Len(rows) }
PriorityQuery == response.view = "merged" /\ response.strategy = "priority"

\* The source types of the rows processing runs write (the rows of the debug
\* request carry source DEBUG).
RunSources == { "DOCX", "PDF", "Image", "Other" }
LatestQuery == response.view = "merged" /\ response.strategy = "latest"

\* C1: a processing run over the documents of the run just before it leaves
\* the number of rows of master_specs as that run left it.
C1_IdempotentRerun == rerun => Len(master_specs) = Len(prev_specs)

\* C1 witness: a run was repeated on a store holding its rows.
C1_Witness == rerun /\ Len(master_specs) >= 2 /\ n_runs = 2

\* C2: no two rows of master_specs share (param, source, raw).
C2_UpsertKeyUnique ==
    \A i, j \in 1..Len(master_specs) :
        (/\ master_specs[i].param = master_specs[j].param
         /\ master_specs[i].source = master_specs[j].source
         /\ master_specs[i].raw = master_specs[j].raw) => i = j

\* C3: for a parameter with at least two rows, the record get_specs returns
\* under view=merged, strategy=priority has the smallest priority value
\* stored for that parameter.
C3_PriorityMonotone ==
    PriorityQuery =>
        \A rec \in response.body :
            Cardinality(RowsWith(master_specs, rec.param)) >= 2 =>
                \A i \in RowsWith(master_specs, rec.param) :
                    rec.priority <= master_specs[i].priority

\* C4: after update_specs accepted an override of a parameter, the value
\* get_specs returns for it under strategy=priority is the override value.
C4_OverrideSupremacy ==
    PriorityQuery =>
        \A k \in 1..Len(last_payload) :
            ~Skipped(last_payload[k]) =>
                \A rec \in response.body :
                    rec.param = last_payload[k].param =>
                        rec.value = Str(StripValue(EntryValue(last_payload[k])))

UserRows(rows, param) ==
    { i \in 1..Len(rows) : rows[i].param = param /\ rows[i].source = "USER" }

\* C5: every parameter has at most one row of source USER, and an override
\* of a parameter that has one re-writes that row and adds none.
C5_OneUserRow ==
    /\ \A p \in StoredParams(master_specs) :
           Cardinality(UserRows(master_specs, p)) <= 1
    /\ \A k \in 1..Len(last_payload) :
           LET p == last_payload[k].param
           IN  (~Skipped(last_payload[k]) /\ UserRows(prev_specs, p) # {}) =>
                   /\ Cardinality(RowsWith(master_specs, p))
                          = Cardinality(RowsWith(prev_specs, p))
                   /\ { master_specs[i].id : i \in UserRows(master_specs, p) }
                          = { prev_specs[i].id : i \in UserRows(prev_specs, p) }

\* C5 witness: an override of a parameter that already had its USER row
\* has re-written that row.
C5_Witness ==
    \E k \in 1..Len(last_payload) :
        /\ ~Skipped(last_payload[k])
        /\ UserRows(prev_specs, last_payload[k].param) # {}
        /\ \E i \in UserRows(master_specs, last_payload[k].param) :
               master_specs[i] \notin { prev_specs[j] : j \in 1..Len(prev_specs) }

\* The rows of a parameter that carry its smallest priority value.
MinPriorityRows(rows, param) ==
    { i \in RowsWith(rows, param) :
        \A j \in RowsWith(rows, param) : rows[i].priority <= rows[j].priority }

\* C7: in the merged master a run returns, the chosen variant of a parameter
\* is, among its rows of the smallest priority value, one of the most recent
\* insertion timestamp.
C7_TieBreakLatest ==
    last_run # {} =>
        \A p \in CanonicalParams :
            RowsWith(master_specs, p) # {} =>
                \E i \in MinPriorityRows(master_specs, p) :
                    /\ merged_master[p].chosen.id = master_specs[i].id
                    /\ \A j \in MinPriorityRows(master_specs, p) :
                           master_specs[j].added_at <= master_specs[i].added_at

\* C8: under view=merged, strategy=latest, get_specs returns for every stored
\* parameter exactly one record, that of a row of the parameter whose
\* insertion timestamp no other row of the parameter exceeds.
C8_LatestStrategy ==
    LatestQuery =>
        /\ \A p \in StoredParams(master_specs) :
               Cardinality({ rec \in response.body : rec.param = p }) = 1
        /\ \A rec \in response.body :
               /\ \E i \in RowsWith(master_specs, rec.param) :
                      rec = SpecRecord(master_specs[i])
               /\ \A i \in RowsWith(master_specs, rec.param) :
                      master_specs[i].uploaded_at <= rec.uploaded_at

\* C8 witness: the latest record of a parameter is returned although an
\* older row of the same parameter has a smaller priority value, the two
\* rows being inserted by one commit on either side of the turn of a second.
C8_Witness ==
    /\ LatestQuery
    /\ \E rec \in response.body :
           \E i, j \in RowsWith(master_specs, rec.param) :
               /\ rec = SpecRecord(master_specs[j])
               /\ master_specs[i].uploaded_at < rec.uploaded_at
               /\ master_specs[i].priority < rec.priority
               /\ { master_specs[i].id, master_specs[j].id } \cap Ids(prev_specs) = {}

\* C9: no write removes a row: every id stored before the last write is
\* still stored after it.
C9_NoRowDeleted == Ids(prev_specs) \subseteq Ids(master_specs)

\* C9 witness: a write re-wrote a stored row in place and the row is kept.
C9_Witness ==
    /\ n_runs + n_updates = 2
    /\ \E i \in 1..Len(prev_specs) :
           /\ i <= Len(master_specs)
           /\ master_specs[i].id = prev_specs[i].id
           /\ master_specs[i] # prev_specs[i]

\* The lines of the documents of a run, as << document, line >> positions.
LinesOf(batch) ==
    LET docs == DocsOf(batch)
    IN  UNION { { << j, k >> : k \in 1..Len(docs[j].lines) } : j \in 1..Len(docs) }

\* The candidates of document j of the last run whose raw text is `text`.
CandidatesFor(j, text) ==
    { c \in { parsed_by_source[j].parsed[n] : n \in 1..Len(parsed_by_source[j].parsed) } :
        c.raw = LineRaw(text) }

\* C10: a non-blank line whose best score is below the floor yields no
\* candidate variant of its document and no row stored by a run; a non-blank line
\* scoring the floor or more, with a value token, yields candidates of the
\* parameter the classifier returned.
C10_ClassificationFloor ==
    /\ \A i \in 1..Len(master_specs) :
           master_specs[i].source \in RunSources =>
               Similarity(master_specs[i].raw.text).score >= FLOOR
    /\ last_run # {} =>
           \A jk \in LinesOf(last_run) :
               LET line == DocsOf(last_run)[jk[1]].lines[jk[2]]
                   m == map_line_to_param(line, EMBED_MODEL, scoring)
                   found == CandidatesFor(jk[1], Strip(line))
               IN  Strip(line) # "" =>
                       /\ m.score < FLOOR => found = {}
                       /\ (m.score >= FLOOR /\ ValueAndUnit(line).val # "") =>
                              (found # {} /\ \A c \in found : c.param = m.param)

\* C10 witness: a run has met a line scoring 0.40, which left no candidate,
\* and a line scoring exactly 0.55, which left one.
C10_Witness ==
    /\ EMBED_MODEL = "loaded" /\ scoring = "ok"
    /\ last_run # {}
    /\ \E jk \in LinesOf(last_run) :
           LET line == DocsOf(last_run)[jk[1]].lines[jk[2]]
           IN  /\ Similarity(line).score = 40
               /\ CandidatesFor(jk[1], Strip(line)) = {}
    /\ \E jk \in LinesOf(last_run) :
           LET line == DocsOf(last_run)[jk[1]].lines[jk[2]]
           IN  /\ Similarity(line).score = FLOOR
               /\ CandidatesFor(jk[1], Strip(line)) # {}

\* The positions of a request's variants that carry the key of `v`.
SameKey(variants, v) ==
    { k \in 1..Len(variants) :
        /\ variants[k].param = v.param
        /\ variants[k].source = v.source
        /\ variants[k].raw = v.raw }

\* C6: when two concurrent requests have both committed, a parameter both
\* overrode has a single USER row, and a (param, source, raw) key that each of
\* two runs wrote once has a single row.
C6_NoUpsertRace ==
    (conc[1].pc = "done" /\ conc[2].pc = "done") =>
        /\ \A p \in StoredParams(master_specs) :
               Cardinality(UserRows(master_specs, p)) <= 1
        /\ \A k \in 1..Len(conc[1].variants) :
               LET v == conc[1].variants[k]
               IN  (/\ Cardinality(SameKey(conc[1].variants, v)) = 1
                    /\ Cardinality(SameKey(conc[2].variants, v)) = 1) =>
                       Cardinality({ i \in 1..Len(master_specs) :
                                       /\ master_specs[i].param = v.param
                                       /\ master_specs[i].source = v.source
                                       /\ master_specs[i].raw = v.raw }) = 1

\* The last request was a processing run during which the classifier was
\* unavailable.
UnavailableRun ==
    n_runs > 0 /\ last_run # {} /\ (EMBED_MODEL = "none" \/ scoring = "raises")

\* C11: a run during which the embedding model is not loaded or scoring
\* raises gets (none, 0.0) for every line, yields no candidate variant and
\* stores no row, and still completes: every document of the run has its Raw
\* Extraction record and the merged master is returned.
C11_ClassifierUnavailable ==
    UnavailableRun =>
        LET docs == DocsOf(last_run)
            n == Len(raw_extractions)
        IN  /\ \A j \in 1..Len(docs) : \A k \in 1..Len(docs[j].lines) :
                   map_line_to_param(docs[j].lines[k], EMBED_MODEL, scoring)
                       = [param |-> "", score |-> 0]
            /\ Len(parsed_by_source) = Len(docs)
            /\ \A j \in 1..Len(docs) : parsed_by_source[j].parsed = << >>
            /\ master_specs = prev_specs
            /\ n >= Len(docs)
            /\ \A j \in 1..Len(docs) :
                   raw_extractions[n - Len(docs) + j].source = docs[j].filename
            /\ DOMAIN merged_master = CanonicalParams

\* C11 witness: scoring raised throughout a run of two documents whose lines
\* would otherwise have scored above the floor.
C11_Witness ==
    /\ UnavailableRun /\ EMBED_MODEL = "loaded" /\ scoring = "raises"
    /\ Cardinality(last_run) = 2 /\ 1 \in last_run
    /\ Len(raw_extractions) >= 2

\* The engine has classified the record of `call`.
Classified == result.fn = "classify"

\* The rows of the table of `call` whose defect type is, case-insensitively,
\* the one the record declares.
RowsOfType ==
    { i \in 1..Len(call.rules) :
        /\ call.defect.defect_type.k = "str"
        /\ LowerText(call.rules[i].defect_type.s) = LowerText(call.defect.defect_type.s) }

\* The first of them: the rule the record is classified by.
RuleUsed == call.rules[CHOOSE i \in RowsOfType : \A j \in RowsOfType : i <= j]

\* The tag of a rule: "" for a normal rule (empty cell or no such column).
TagOf(rule) == IF rule.special.k = "str" THEN LowerText(rule.special.s) ELSE ""
NormalRuleUsed == RowsOfType # {} /\ TagOf(RuleUsed) \notin { "always_fail", "coating" }

\* The chosen value of the parameter a rule refers to; SpecMissing when the
\* master has no entry, no chosen variant, or an empty value for it.
SpecValue(rule) == ChosenOf(call.merged_master, rule.spec_name).value
SpecMissing(rule) ==
    \/ rule.spec_name \notin DOMAIN call.merged_master
    \/ call.merged_master[rule.spec_name].chosen = NoVariant
    \/ SpecValue(rule) \in { NoneVal, Str("") }

\* The cell of the field a rule names, NoneVal when the record has none.
FieldValue(rule) ==
    IF rule.field \in DOMAIN call.defect.fields THEN call.defect.fields[rule.field]
    ELSE NoneVal

\* A value that parses as a number (the text nan names none), and the number
\* (thousandths).
IsNumeric(v) ==
    \/ v.k = "num"
    \/ v.k = "str" /\ FloatOfChars(Chars(v.s)).ok /\ FloatOfChars(Chars(v.s)).kind = "fin"
NumberOf(v) == IF v.k = "num" THEN v.n ELSE FloatOfChars(Chars(v.s)).n

\* C12: for a normal rule whose parameter has a numeric chosen value s and a
\* record whose field has a numeric value f, the decision is the rule's ok
\* outcome when `f op s` holds and its fail outcome when it does not.
C12_NumericRule ==
    (Classified /\ NormalRuleUsed) =>
        LET rule == RuleUsed
            s == NumberOf(SpecValue(rule))
            f == NumberOf(FieldValue(rule))
            holds == \/ rule.op = "<=" /\ f <= s
                     \/ rule.op = "<" /\ f < s
                     \/ rule.op = ">=" /\ f >= s
                     \/ rule.op = ">" /\ f > s
                     \/ rule.op = "==" /\ f = s
        IN  (/\ rule.spec_name # "" /\ ~SpecMissing(rule)
             /\ IsNumeric(SpecValue(rule))
             /\ FieldValue(rule).k = "num"
             /\ rule.op \in { "<=", "<", ">=", ">", "==" }) =>
                result.decision = IF holds THEN rule.ok ELSE rule.fail

\* C13: for a normal rule the decision is Unknown2 when the parameter it
\* refers to has no entry, no chosen variant or an empty chosen value in the
\* merged master, and in no other case.
C13_SpecMissing ==
    (Classified /\ NormalRuleUsed) =>
        (result.decision = "Unknown2"
            <=> (RuleUsed.spec_name # "" /\ SpecMissing(RuleUsed)))

\* C14: for a normal rule with a resolved spec value, when the field or the
\* spec value is not a number the decision is that of a case-insensitive
\* string equality if the operator is ==, and Unknown3 in every other
\* non-comparable case: field value missing, operator outside the five,
\* non-numeric operand with an ordering operator.
C14_StringFallback ==
    (Classified /\ NormalRuleUsed /\ ~(RuleUsed.spec_name # "" /\ SpecMissing(RuleUsed))) =>
        LET rule == RuleUsed
            spec_val == IF rule.spec_name = "" THEN NoneVal ELSE SpecValue(rule)
            field_val == FieldValue(rule)
            missing == spec_val = NoneVal \/ field_val = NoneVal
            numeric == IsNumeric(spec_val) /\ IsNumeric(field_val)
            known == rule.op \in { "<=", "<", ">=", ">", "==" }
            same == LowerValue(field_val) = LowerValue(spec_val)
        IN  /\ (~missing /\ ~numeric /\ rule.op = "==") =>
                   result.decision = IF same THEN rule.ok ELSE rule.fail
            /\ (missing \/ ~known \/ (~numeric /\ rule.op # "==")) =>
                   result.decision = "Unknown3"

\* The coating rule is the one used.
CoatingRuleUsed == RowsOfType # {} /\ TagOf(RuleUsed) = "coating"

\* The merged master has a chosen coating_required value whose text is,
\* whatever the letter case, yes, true or 1.
CoatingRequired ==
    /\ "coating_required" \in DOMAIN call.merged_master
    /\ call.merged_master["coating_required"].chosen # NoVariant
    /\ \E text \in { "yes", "YES", "True", "1" } :
           call.merged_master["coating_required"].chosen.value = Str(text)

\* C15: for a rule tagged coating the decision is the rule's fail outcome
\* when the merged master has a chosen coating_required value reading
\* yes/true/1 in any letter case, and the rule's ok outcome in every other
\* case.
C15_CoatingDispatch ==
    (Classified /\ CoatingRuleUsed) =>
        result.decision = IF CoatingRequired THEN RuleUsed.fail ELSE RuleUsed.ok

\* C15 witness: a coating rule has decided fail on the chosen value YES.
C15_Witness ==
    /\ Classified /\ CoatingRuleUsed
    /\ result.decision = RuleUsed.fail
    /\ call.merged_master["coating_required"].chosen.value = Str("YES")

\* C16: the engine ends every call with a decision, never with an exception.
C16_NeverRaises == Classified => result.decision # AttributeError

\* The number a decimal number of NormValues spells once its ± is dropped,
\* in thousandths.
DecimalValue(value) ==
    CASE value = "10" -> 10000
      [] value = "100" -> 100000
      [] value = "14.5" -> 14500
      [] value = "±0.5" -> 500
      [] value = "-2" -> 0 - 2000
      [] value = ".5" -> 500
      [] value = "5." -> 5000
      [] OTHER -> 0
IsDecimal(value) == value \in { "10", "100", "14.5", "±0.5", "-2", ".5", "5." }

\* The values of NormValues that are no numbers at all: words, the names of
\* the non-finite floats, misplaced dots and underscores. (The remaining
\* values, "1e3", "1E-2" and "1_0", are numbers in another notation, on
\* which the property says nothing.)
NotANumber(value) ==
    value \in { "TBD", "1.2.3", "", "inf", "-inf", "Infinity", "nan", "_1" }

\* x is n * 0.0689476 cut to whole thousandths (n a whole number of tenths).
IsPsiInBar(x, n) ==
    /\ x * 100000 <= (n \div 100) * 689476
    /\ (n \div 100) * 689476 < (x + 1) * 100000

\* C17: normalize_numeric follows the conversion table: to mm, cm is times
\* 10, m times 1000, µm/um/micron divided by 1000, mm unchanged; to um, mm is
\* times 1000; to bar, psi is times 0.0689476; without a unit, or for a pair
\* outside the table, the number is returned as parsed; a value that is no
\* decimal number once ± is dropped gives the failure marker.
C17_ConversionTable ==
    result.fn = "normalize" =>
        LET n == DecimalValue(call.value)
            u == IF call.unit = "CM" THEN "cm" ELSE call.unit
            t == call.target
            out == result.value
        IN  IF NotANumber(call.value) THEN out = NoneVal
            ELSE IF ~IsDecimal(call.value) THEN TRUE
            ELSE IF u = "" THEN out = Num(n)
            ELSE IF t = "mm" /\ u = "cm" THEN out = Num(n * 10)
            ELSE IF t = "mm" /\ u = "m" THEN out = Num(n * 1000)
            ELSE IF t = "mm" /\ u \in { "µm", "um", "micron" }
                 THEN /\ out.k = "num"
                      /\ out.n * 1000 <= n /\ n < (out.n + 1) * 1000
            ELSE IF t = "um" /\ u = "mm" THEN out = Num(n * 1000)
            ELSE IF t = "bar" /\ u = "psi"
                 THEN out.k = "num" /\ (n >= 0 => IsPsiInBar(out.n, n))
            ELSE IF t = "c" /\ u = "f" THEN out.k = "num"
            ELSE out = Num(n)

\* A unit token of the recognized set in lower case, micron as µm.
CanonicalUnit(token) ==
    CASE token \in { << "m", "m" >>, << "M", "M" >> } -> "mm"
      [] token \in { << "c", "m" >>, << "C", "m" >> } -> "cm"
      [] token \in { << "m" >>, << "M" >> } -> "m"
      [] token \in { << "µ", "m" >>, << "m", "i", "c", "r", "o", "n" >>,
                     << "M", "i", "c", "r", "o", "n" >> } -> "µm"
      [] token \in { << "u", "m" >>, << "U", "M" >> } -> "um"
      [] token \in { << "b", "a", "r" >>, << "B", "a", "r" >> } -> "bar"
      [] token \in { << "p", "s", "i" >>, << "P", "S", "I" >> } -> "psi"
      [] token \in { << "°", "C" >>, << "°", "c" >> } -> "°c"
      [] token \in { << "C" >>, << "c" >> } -> "c"
      [] token \in { << "F" >>, << "f" >> } -> "f"

\* C18: for a line whose first numeric token is followed by a unit token of
\* the recognized set, extract_value_unit returns that numeric token as the
\* value and the unit token in lower case, micron as µm.
C18_UnitRecognition ==
    result.fn = "extract" =>
        /\ result.val = Text(call.number)
        /\ result.unit = CanonicalUnit(call.unit)

\* The entry carries no value, or one that is blank once trimmed.
BlankEntry(e) ==
    IF e.form = "dict" THEN e.value \in { "", " " } ELSE e.parts = << >>

\* The row holds what entry e asked for.
WrittenFor(r, e) ==
    /\ r.param = e.param
    /\ r.value = Str(IF e.form = "dict" THEN e.value ELSE EntryValue(e))
    /\ r.meta = ApiMeta
    /\ r.priority = 0

\* C19: update_specs rejects an empty or non-mapping payload and writes
\* nothing for it; in an accepted payload an entry with a missing or blank
\* value leaves the rows of its parameter as they were, and every other entry
\* of the same payload is written.
C19_OverrideValidation ==
    /\ http_status = 400 => master_specs = prev_specs
    /\ http_status = 200 =>
          \A k \in 1..Len(last_payload) :
              LET e == last_payload[k]
              IN  IF BlankEntry(e)
                  THEN RowsOfParam(master_specs, e.param) = RowsOfParam(prev_specs, e.param)
                  ELSE \E i \in 1..Len(master_specs) : WrittenFor(master_specs[i], e)

\* C19 witness: an accepted payload held a blank entry and another entry,
\* and the other entry was written.
C19_Witness ==
    /\ http_status = 200
    /\ Len(last_payload) = 2
    /\ \E k \in 1..2 : BlankEntry(last_payload[k])
    /\ \E k \in 1..2 :
          /\ ~BlankEntry(last_payload[k])
          /\ \E i \in 1..Len(master_specs) : WrittenFor(master_specs[i], last_payload[k])
    /\ master_specs # prev_specs

\* C20: after update_specs accepts an override of a parameter, the row it
\* inserted or replaced has priority 0, holds the override's value and unit,
\* and its raw string is USER_EDIT:<value> <unit> of the value and unit the
\* row holds.
C20_OverrideWriteShape ==
    http_status = 200 =>
        \A k \in 1..Len(last_payload) :
            LET e == last_payload[k]
            IN  ~BlankEntry(e) =>
                    \E i \in 1..Len(master_specs) :
                        LET r == master_specs[i]
                        IN  /\ WrittenFor(r, e)
                            /\ r.unit = EntryUnit(e)
                            /\ r.raw.kind = "USER_EDIT"
                            /\ Str(r.raw.value) = r.value
                            /\ r.raw.unit = r.unit

\* C21: in the merged master a processing run returns, the chosen variant of
\* every catalog parameter has the smallest priority value among the rows
\* stored for the parameter, so a stored override of priority 0 is chosen
\* over every extracted variant.
C21_OverrideWinsInRun ==
    last_run # {} =>
        \A p \in CanonicalParams :
            \A i \in RowsWith(master_specs, p) :
                merged_master[p].chosen.priority <= master_specs[i].priority

\* C21 witness: a run has chosen the USER override of a parameter that also
\* has an extracted variant.
C21_Witness ==
    /\ last_run # {}
    /\ \E p \in CanonicalParams :
          /\ merged_master[p].chosen.source = "USER"
          /\ merged_master[p].chosen.priority = 0
          /\ \E i \in RowsWith(master_specs, p) : master_specs[i].priority >= 1

\* The candidates of the last run, over all its documents.
Candidates ==
    UNION { { parsed_by_source[j].parsed[n] : n \in 1..Len(parsed_by_source[j].parsed) } :
            j \in 1..Len(parsed_by_source) }

\* The number a line reads in degrees Fahrenheit, in thousandths.
FahrenheitReading(text) ==
    CASE text = "Max temperature: 212 F" -> 212000

\* C22: a candidate of a temperature parameter whose extracted unit is
\* Fahrenheit carries (v - 32) * 5/9 of the extracted number v.
C22_TemperatureToCelsius ==
    last_run # {} =>
        \A c \in Candidates :
            (c.param \in { "max_temperature", "min_temperature" } /\ c.unit = "f") =>
                c.value = Num(((FahrenheitReading(c.raw.text) - 32000) * 5) \div 9)

\* C23: a line above the floor whose value token is no number, for a
\* parameter with a normalization target, produces no variant: no candidate
\* of a run, no stored row and no chosen variant of a parameter with rows has
\* a missing value.
C23_UnparseableSkipped ==
    /\ \A i \in 1..Len(master_specs) : master_specs[i].value # NoneVal
    /\ last_run # {} =>
          /\ \A c \in Candidates : c.value # NoneVal
          /\ \A p \in CanonicalParams :
                 RowsWith(master_specs, p) # {} => merged_master[p].chosen.value # NoneVal

\* C24: a processing run in which a database write has raised ends in
\* failure reported to its caller: it neither goes on to further documents
\* nor ends normally.
C24_StorageFailureAborts ==
    /\ (call.fn = "run" /\ call.path \in RunPaths) => ~call.db_failed
    /\ (result.fn = "run" /\ result.path \in RunPaths /\ result.db_failed) =>
           (result.status = "failed" /\ http_status = 500)

\* The Raw Extraction records stored since the run began.
RunRecords(run) == Len(raw_extractions) - run.first_id

\* C25: the store holds all of a run's writes or none of them: while a run
\* is in progress none of its records is stored, after a run that failed
\* none of its records or rows is stored, and after a run that ended
\* normally the record of each of its documents is stored.
C25_AtomicRunCommit ==
    /\ (call.fn = "run" /\ call.path \in RunPaths) => RunRecords(call) = 0
    /\ (result.fn = "run" /\ result.path \in RunPaths /\ result.status = "failed") =>
           (RunRecords(result) = 0 /\ master_specs = prev_specs)
    /\ (result.fn = "run" /\ result.path \in RunPaths /\ result.status = "ok") =>
           RunRecords(result) = Cardinality(result.batch)

\* The filenames of the documents that hold a line.
OriginsOf(text) ==
    { Corpus[d].filename : d \in { d \in 1..Len(Corpus) :
          \E k \in 1..Len(Corpus[d].lines) : Strip(Corpus[d].lines[k]) = text } }

\* The records of the last response: those of every list under strategy all.
ReturnedRecords ==
    IF response.view = "merged" /\ response.strategy = "all"
    THEN UNION { { e.variants[i] : i \in 1..Len(e.variants) } : e \in response.body }
    ELSE response.body

\* C26: every row a processing run stored records as origin the filename of
\* the document it was extracted from, and so does every record get_specs
\* returns for an extracted variant.
C26_OriginCarried ==
    /\ \A i \in 1..Len(master_specs) :
           master_specs[i].raw.kind = "line" =>
               master_specs[i].origin \in OriginsOf(master_specs[i].raw.text)
    /\ \A rec \in ReturnedRecords :
           rec.raw.kind = "line" => rec.origin \in OriginsOf(rec.raw.text)

\* The record and the variant describe the same row.
SameVariant(rec, v) ==
    /\ rec.value = v.value
    /\ rec.unit = v.unit
    /\ rec.raw = v.raw
    /\ rec.source = v.source
    /\ rec.priority = v.priority

\* C27: on the store a processing run left, for every catalog parameter with
\* rows, the record get_specs returns under view=merged, strategy=priority
\* is the variant the run's merged master chose.
C27_ResolutionPathsAgree ==
    (PriorityQuery /\ last_run # {}) =>
        \A p \in CanonicalParams :
            RowsWith(master_specs, p) # {} =>
                \E rec \in response.body :
                    rec.param = p /\ SameVariant(rec, merged_master[p].chosen)

\* C28: a row that was stored before a processing run or an override is
\* stored after it with the same id, parameter, source and insertion
\* timestamps (added_at, uploaded_at), and after a run with the same raw:
\* a re-write changes value, unit, priority and metadata, and raw only for
\* an override.
C28_UpsertFrame ==
    \A i \in 1..Len(prev_specs) :
        \E j \in 1..Len(master_specs) :
            /\ master_specs[j].id = prev_specs[i].id
            /\ master_specs[j].param = prev_specs[i].param
            /\ master_specs[j].source = prev_specs[i].source
            /\ master_specs[j].added_at = prev_specs[i].added_at
            /\ master_specs[j].uploaded_at = prev_specs[i].uploaded_at
            /\ last_run # {} => master_specs[j].raw = prev_specs[i].raw

\* C28 witness: an override has re-written the USER row of a parameter with
\* another value and raw, at a later time than the row was inserted.
C28_Witness ==
    /\ last_payload # << >>
    /\ \E i \in 1..Len(prev_specs) :
          /\ prev_specs[i].source = "USER"
          /\ master_specs[i].id = prev_specs[i].id
          /\ master_specs[i].value # prev_specs[i].value
          /\ master_specs[i].raw # prev_specs[i].raw
          /\ master_specs[i].added_at < clock

\* C29: the merged master a processing run returns has exactly the catalog
\* parameters as keys; the variants of each entry are all rows stored for the
\* parameter, by runs and overrides; its chosen variant is none exactly when
\* there is no such row and is otherwise one of the variants.
C29_MergedMasterShape ==
    last_run # {} =>
        /\ DOMAIN merged_master = CanonicalParams
        /\ \A p \in CanonicalParams :
               LET entry == merged_master[p]
               IN  /\ { v.id : v \in entry.variants } =
                          { master_specs[i].id : i \in RowsWith(master_specs, p) }
                   /\ \A v \in entry.variants :
                          \E i \in RowsWith(master_specs, p) :
                              /\ v.id = master_specs[i].id
                              /\ v.value = master_specs[i].value
                              /\ v.source = master_specs[i].source
                   /\ entry.chosen = NoVariant <=> entry.variants = {}
                   /\ entry.variants # {} => entry.chosen \in entry.variants

\* C29 witness: a run returned its merged master on a store that holds an
\* override of coating_required, outside the catalog, and an override and an
\* extracted row of one catalog parameter; another catalog parameter has no
\* row and no chosen variant.
C29_Witness ==
    /\ last_run # {}
    /\ \E i \in 1..Len(master_specs) : master_specs[i].param = "coating_required"
    /\ "coating_required" \notin DOMAIN merged_master
    /\ \E p \in CanonicalParams :
          /\ Cardinality(merged_master[p].variants) >= 2
          /\ \E v \in merged_master[p].variants : v.source = "USER"
    /\ \E p \in CanonicalParams : merged_master[p].chosen = NoVariant

\* The unit token that follows the first number of a line of the documents,
\* in lower case; "" when the line has none.
UnitOfLine(text) ==
    CASE text = "Cap diameter: 25mm" -> "mm"
      [] text = "Cap dia 3 cm" -> "cm"
      [] text = "Max pressure: 10 bar" -> "bar"
      [] text = "Max temperature: 212 F" -> "f"
      [] OTHER -> ""

\* C30: every candidate of a processing run, and every row stored for it,
\* carries as unit the lower-cased unit token of its line (or ""), also when
\* its value was converted to the target unit: the line giving 3 cm for
\* cap_diameter, an mm-target parameter, has value 30.0 and unit cm.
C30_StoredUnitIsExtracted ==
    /\ last_run # {} =>
           \A c \in Candidates :
               /\ c.unit = UnitOfLine(c.raw.text)
               /\ c.raw.text = "Cap dia 3 cm" => c.value = Num(30000)
    /\ \A i \in 1..Len(master_specs) :
           master_specs[i].source \in RunSources =>
               master_specs[i].unit = UnitOfLine(master_specs[i].raw.text)

\* C30 witness: a run produced the candidate of the line giving 3 cm with
\* the converted value 30.0 and unit cm, and stored it so.
C30_Witness ==
    /\ last_run # {}
    /\ \E c \in Candidates :
          c.raw.text = "Cap dia 3 cm" /\ c.value = Num(30000) /\ c.unit = "cm"
    /\ \E i \in 1..Len(master_specs) :
          /\ master_specs[i].raw = LineRaw("Cap dia 3 cm")
          /\ master_specs[i].value = Num(30000)
          /\ master_specs[i].unit = "cm"

====
